---- MODULE Spec2Model ----
(***************************************************************************)
(* Model of the incremental summarization pipeline and the query agent of  *)
(* the chat summarizer bot (summarizer.py, query_agent.py, database.py,    *)
(* llm_client.py, bot.py).                                                 *)
(*                                                                         *)
(* Python values are modelled as follows: a list is a sequence, a dict is  *)
(* a record, an exception leaving a function is the outcome kind "raise".  *)
(***************************************************************************)
EXTENDS Integers, Sequences, FiniteSets, TLC

VARIABLES
    \* ---- one call of chunk_messages (summarizer.py:295) ----
    cm_pc,          \* "idle" | "ready" | "done"
    cm_messages,    \* argument messages
    cm_chunk_size,  \* argument chunk_size
    cm_overlap,     \* argument overlap
    cm_result,      \* [kind |-> "return" | "raise", chunks |-> list of lists]
    \* ---- the store (database.py: the SQLite tables) ----
    db,             \* [messages, problems, next_problem_id, links, chat_meta]
    \* ---- one pass of analyze_and_update (summarizer.py:310) ----
    an,             \* the coroutine's locals and its position, see IdlePass
    trace,          \* what the pass did so far: one event per call it made
    ag,             \* the run of run_query_agent: position, conversation, outcome
    mp,             \* one call of format_messages_page: arguments and result
    gw,             \* one call of the LLM gateway: attempts, waits, outcome
    mh,             \* passes run so far and the meta entries they stored or were given
    so,             \* the last call of a store operation, see NoStoreOp
    pj,             \* one call of parse_llm_json on a text, see IdleParse
    rg,             \* one call of regenerate_problem_summary, see IdleRegen
    an2             \* a second pass of analyze_and_update under way, see IdlePass

chunkVars == <<cm_pc, cm_messages, cm_chunk_size, cm_overlap, cm_result>>

otherVars == <<so, pj, rg, an2>>

vars == <<chunkVars, db, an, trace, ag, mp, gw, mh, otherVars>>

(***************************************************************************)
(* Bounds of the model.                                                    *)
(***************************************************************************)
\* longest message list handed to chunk_messages (besides the literal scenario)
MaxLen == 7
\* largest chunk_size handed to chunk_messages (besides the literal scenario)
MaxChunk == 3
\* largest overlap handed to chunk_messages; above MaxChunk so that
\* overlap >= chunk_size happens
MaxOverlap == 4

\* The literal scenario of the specification: 45 messages, chunk_size 20, overlap 5.
ScenarioInput == [len |-> 45, chunk_size |-> 20, overlap |-> 5]

Min(a, b) == IF a <= b THEN a ELSE b

Max(a, b) == IF a >= b THEN a ELSE b

Elems(s) == {s[k] : k \in 1..Len(s)}

NoResult == [kind |-> "none", chunks |-> <<>>]

\* the store before init_db() has seen any row
EmptyDb ==
    [messages |-> {}, problems |-> <<>>, next_problem_id |-> 1,
     links |-> {}, chat_meta |-> <<>>]

\* no pass of analyze_and_update is running
IdlePass ==
    [pc |-> "idle", chat_id |-> 0, new_messages |-> <<>>, on_progress |-> "None",
     i |-> 0, existing_problems |-> <<>>,
     meta |-> [overview |-> "", decisions |-> <<>>, key_points |-> <<>>],
     stats |-> [new_problems |-> 0, updated_problems |-> 0],
     response |-> [kind |-> "none"], status_msg |-> <<>>,
     progress_failures |-> 0,
     outcome |-> [kind |-> "none"]]

\* no run of run_query_agent is in progress
IdleAgent ==
    [pc |-> "idle", chat_id |-> 0, on_status |-> "None",
     problems |-> <<>>, messages |-> <<>>, iteration |-> 0,
     tool_calls |-> <<>>, k |-> 0,
     gateway_calls |-> 0, gateway_failures |-> 0,
     statuses |-> <<>>, status_failures |-> 0,
     message_reads |-> <<>>,
     outcome |-> [kind |-> "none"]]

\* no call of format_messages_page is being looked at
IdlePage ==
    [pc |-> "idle", messages |-> <<>>, page |-> 1, page_size |-> 1,
     result |-> [kind |-> "none"]]

\* no gateway call is in progress
IdleGateway ==
    [pc |-> "idle", variant |-> "call_llm", attempt |-> 0, attempts |-> <<>>,
     sleeps |-> <<>>, outcome |-> [kind |-> "none"]]

\* no /solve command was given yet
NoTrail == [id |-> 0, statuses |-> <<>>]

\* no store operation was called yet
NoStoreOp ==
    [n |-> 0, op |-> "none", args |-> <<>>, result |-> [kind |-> "none"],
     before |-> EmptyDb, trail |-> NoTrail]

\* no call of parse_llm_json is being looked at
IdleParse ==
    [pc |-> "idle", payload |-> <<>>, wrap |-> "none", response |-> <<>>,
     result |-> [kind |-> "none"]]

\* no regeneration of a problem's summary is in progress
IdleRegen == [pc |-> "idle", problem |-> <<>>, outcome |-> [kind |-> "none"]]

\* nothing was stored or supplied yet
NoHistory == [passes |-> 0, decisions |-> {}, key_points |-> {}]

(***************************************************************************)
(* Python list slicing s[a:b] for 0 <= a <= b (b is clamped to len(s)).    *)
(***************************************************************************)
PySlice(s, a, b) == SubSeq(s, a + 1, Min(b, Len(s)))

\* an index of a slice, as Python normalises it: negative counts from the end
PySliceIndex(s, a) == IF a < 0 THEN Max(Len(s) + a, 0) ELSE Min(a, Len(s))

\* Python list slicing s[a:b] for any integers a, b
PySliceAny(s, a, b) == SubSeq(s, PySliceIndex(s, a) + 1, PySliceIndex(s, b))

(***************************************************************************)
(* chunk_messages, summarizer.py:295-307.                                  *)
(***************************************************************************)
\* a step that skips one message more than the code's
chunk_step_wide(chunk_size, overlap) == chunk_size - overlap + 1

\* step = chunk_size - overlap
chunk_step(chunk_size, overlap) == chunk_size - overlap

\* a slice that loses the chunk's first message
chunk_slice_short(messages, i, chunk_size) == PySlice(messages, i + 1, i + chunk_size)

\* chunk = messages[i : i + chunk_size]
chunk_slice(messages, i, chunk_size) == PySlice(messages, i, i + chunk_size)

\* a stopping rule that stops one message early
chunk_stop_early(messages, i, chunk_size) == i + chunk_size >= Len(messages) - 1

\* if i + chunk_size >= len(messages): break
chunk_stop(messages, i, chunk_size) == i + chunk_size >= Len(messages)

\* for i in range(0, len(messages), step) with step > 0: the body from index i on
RECURSIVE chunk_loop(_, _, _, _, _)
chunk_loop(messages, chunk_size, step, i, chunks) ==
    IF i >= Len(messages)
    THEN chunks
    ELSE LET appended == Append(chunks, chunk_slice(messages, i, chunk_size))
         IN  IF chunk_stop(messages, i, chunk_size)
             THEN appended
             ELSE chunk_loop(messages, chunk_size, step, i + step, appended)

\* range(0, n, 0) raises ValueError; range(0, n, step) with step < 0 is empty
chunk_messages(messages, chunk_size, overlap) ==
    IF Len(messages) <= chunk_size
    THEN [kind |-> "return", chunks |-> <<messages>>]
    ELSE LET step == chunk_step(chunk_size, overlap)
         IN  IF step = 0
             THEN [kind |-> "raise", chunks |-> <<>>]
             ELSE IF step < 0
             THEN [kind |-> "return", chunks |-> <<>>]
             ELSE [kind |-> "return",
                   chunks |-> chunk_loop(messages, chunk_size, step, 0, <<>>)]

(***************************************************************************)
(* Specification SpecChunk: chunk_messages applied to every input within   *)
(* the bounds and to the literal scenario.  A message is its id; ids are   *)
(* distinct and differ from list positions.                                *)
(***************************************************************************)
MessageList(n) == [p \in 1..n |-> 100 + p]

ChunkInputs ==
    [len : 0..MaxLen, chunk_size : 1..MaxChunk, overlap : 0..MaxOverlap]
        \cup {ScenarioInput}

InitChunk ==
    /\ \E inp \in ChunkInputs :
          /\ cm_messages = MessageList(inp.len)
          /\ cm_chunk_size = inp.chunk_size
          /\ cm_overlap = inp.overlap
    /\ cm_pc = "ready"
    /\ cm_result = NoResult
    /\ db = EmptyDb
    /\ an = IdlePass
    /\ trace = <<>>
    /\ ag = IdleAgent
    /\ mp = IdlePage
    /\ gw = IdleGateway
    /\ so = NoStoreOp
    /\ pj = IdleParse
    /\ rg = IdleRegen
    /\ an2 = IdlePass
    /\ mh = NoHistory

CallChunkMessages ==
    /\ cm_pc = "ready"
    /\ cm_result' = chunk_messages(cm_messages, cm_chunk_size, cm_overlap)
    /\ cm_pc' = "done"
    /\ UNCHANGED <<cm_messages, cm_chunk_size, cm_overlap, db, an, trace, ag, mp, gw, mh, otherVars>>

NextChunk == CallChunkMessages

SpecChunk == InitChunk /\ [][NextChunk]_vars

(***************************************************************************)
(* Claims about chunk_messages (checked under SpecChunk).                  *)
(***************************************************************************)
ValidChunking == cm_overlap >= 0 /\ cm_overlap < cm_chunk_size

\* position of message m in the input list
PosOf(m) == CHOOSE p \in 1..Len(cm_messages) : cm_messages[p] = m

\* chunk is the slice of the input that starts at position a
IsSliceAt(chunk, a) ==
    /\ a + Len(chunk) - 1 <= Len(cm_messages)
    /\ \A k \in 1..Len(chunk) : chunk[k] = cm_messages[a + k - 1]

\* number of messages two chunks have in common
Shared(c1, c2) == Cardinality(Elems(c1) \cap Elems(c2))

ChunkSizes == [j \in 1..Len(cm_result.chunks) |-> Len(cm_result.chunks[j])]

\* C1: for every message list and every chunk_size > overlap >= 0 the call
\* returns chunks that are contiguous slices of the input, in input order,
\* and every input message is in at least one chunk.
C1_ChunksCoverInOrder ==
    (cm_pc = "done" /\ ValidChunking) =>
        LET chunks == cm_result.chunks
        IN  /\ cm_result.kind = "return"
            /\ \A j \in 1..Len(chunks) :
                  \E a \in 1..(Len(cm_messages) + 1) : IsSliceAt(chunks[j], a)
            /\ \A j \in 1..(Len(chunks) - 1) :
                  /\ chunks[j] # <<>>
                  /\ chunks[j + 1] # <<>>
                  /\ PosOf(chunks[j][1]) < PosOf(chunks[j + 1][1])
            /\ \A p \in 1..Len(cm_messages) :
                  \E j \in 1..Len(chunks) : cm_messages[p] \in Elems(chunks[j])

C1_Witness ==
    /\ cm_pc = "done"
    /\ ValidChunking
    /\ cm_overlap > 0
    /\ Len(cm_result.chunks) >= 3
    /\ Len(cm_result.chunks[Len(cm_result.chunks)]) < cm_chunk_size

\* C2: for a list longer than chunk_size and overlap < chunk_size, consecutive
\* chunks share at least `overlap` messages, and exactly `overlap` messages
\* when neither of the two is the final chunk.
C2_ConsecutiveChunksShareOverlap ==
    (cm_pc = "done" /\ ValidChunking /\ Len(cm_messages) > cm_chunk_size) =>
        LET chunks == cm_result.chunks
        IN  \A j \in 1..(Len(chunks) - 1) :
               /\ Shared(chunks[j], chunks[j + 1]) >= cm_overlap
               /\ (j + 1 < Len(chunks)) =>
                     Shared(chunks[j], chunks[j + 1]) = cm_overlap

C2_Witness ==
    /\ cm_pc = "done"
    /\ ValidChunking
    /\ cm_overlap > 0
    /\ Len(cm_result.chunks) >= 3
    /\ Shared(cm_result.chunks[1], cm_result.chunks[2]) = cm_overlap

IsScenario ==
    /\ cm_messages = MessageList(ScenarioInput.len)
    /\ cm_chunk_size = ScenarioInput.chunk_size
    /\ cm_overlap = ScenarioInput.overlap

\* C3 as stated: 45 messages with chunk_size 20 and overlap 5 give exactly
\* 3 chunks of sizes [20, 20, 10].
C3_Original ==
    (cm_pc = "done" /\ IsScenario) =>
        /\ cm_result.kind = "return"
        /\ ChunkSizes = <<20, 20, 10>>

\* C3 as amended: 45 messages with chunk_size 20 and overlap 5 give exactly
\* 3 chunks, messages[0:20], messages[15:35] and messages[30:45], of sizes
\* [20, 20, 15].
C3_ScenarioChunks ==
    (cm_pc = "done" /\ IsScenario) =>
        /\ cm_result.kind = "return"
        /\ ChunkSizes = <<20, 20, 15>>
        /\ cm_result.chunks[1] = SubSeq(cm_messages, 1, 20)
        /\ cm_result.chunks[2] = SubSeq(cm_messages, 16, 35)
        /\ cm_result.chunks[3] = SubSeq(cm_messages, 31, 45)

C3_Witness ==
    /\ cm_pc = "done"
    /\ IsScenario
    /\ Len(cm_result.chunks) = 3

\* C4 as stated: with overlap >= chunk_size and an input longer than
\* chunk_size the call is rejected with an error; it never returns a chunk
\* list, empty or not.
C4_BadOverlapRejected ==
    (cm_pc = "done" /\ cm_overlap >= cm_chunk_size
                    /\ Len(cm_messages) > cm_chunk_size) =>
        cm_result.kind = "raise"


(***************************************************************************)
(* The store, database.py.  A Message row is [id, chat_id,                 *)
(* telegram_msg_id]; a Problem row is [id, chat_id, title, short_summary,  *)
(* long_summary, solution, status]; db.problems maps an id to its row;     *)
(* db.links is the table problem_messages, a set of <<problem_id,          *)
(* message_id>>; db.chat_meta maps a chat_id to [overview, decisions,      *)
(* key_points].  A Problem object whose id is None has id 0 (the code      *)
(* tests `if problem.id:`).  The text of a message is not modelled.        *)
(***************************************************************************)
CHUNK_SIZE == 40

DEFAULT_OVERLAP == 5

CONTEXT_MESSAGES_PER_PROBLEM == 3

\* ORDER BY telegram_msg_id ASC
RECURSIVE SortByTelegramId(_)
SortByTelegramId(S) ==
    IF S = {}
    THEN <<>>
    ELSE LET m == CHOOSE x \in S : \A y \in S : x.telegram_msg_id <= y.telegram_msg_id
         IN  <<m>> \o SortByTelegramId(S \ {m})

\* ORDER BY id ASC
RECURSIVE SortById(_)
SortById(S) ==
    IF S = {}
    THEN <<>>
    ELSE LET m == CHOOSE x \in S : \A y \in S : x.id <= y.id
         IN  <<m>> \o SortById(S \ {m})

\* list(set(...)): the distinct elements, in an order the set decides
RECURSIVE ListOfSet(_)
ListOfSet(S) ==
    IF S = {}
    THEN <<>>
    ELSE LET x == CHOOSE y \in S : TRUE
         IN  <<x>> \o ListOfSet(S \ {x})

\* the WHERE clause without the chat
get_unprocessed_messages_any_chat(d, chat_id) ==
    SortByTelegramId({m \in d.messages : ~ \E l \in d.links : l[2] = m.id})

\* database.py:212-239
get_unprocessed_messages(d, chat_id) ==
    SortByTelegramId({m \in d.messages :
        /\ m.chat_id = chat_id
        /\ ~ \E l \in d.links : l[2] = m.id})

\* database.py:390-417
get_messages_for_problem(d, problem_id) ==
    SortByTelegramId({m \in d.messages : <<problem_id, m.id>> \in d.links})

\* database.py:318-337
get_problems_by_chat(d, chat_id) ==
    SortById({d.problems[id] : id \in {x \in DOMAIN d.problems :
                                          d.problems[x].chat_id = chat_id}})

\* database.py:299-315; None is the empty list, a row is a list of one
get_problem_by_id(d, problem_id) ==
    IF problem_id \in DOMAIN d.problems THEN <<d.problems[problem_id]>> ELSE <<>>

\* database.py:450-466
get_chat_meta(d, chat_id) ==
    IF chat_id \in DOMAIN d.chat_meta
    THEN d.chat_meta[chat_id]
    ELSE [overview |-> "", decisions |-> <<>>, key_points |-> <<>>]

\* database.py:469-494: INSERT ... ON CONFLICT(chat_id) DO UPDATE
save_chat_meta(d, chat_id, overview, decisions, key_points) ==
    LET row == [overview |-> overview, decisions |-> decisions,
                key_points |-> key_points]
    IN  [d EXCEPT !.chat_meta =
            [c \in DOMAIN @ \cup {chat_id} |-> IF c = chat_id THEN row ELSE @[c]]]

\* database.py:255-296: UPDATE when the object has an id, INSERT otherwise;
\* the result is [db, id]
save_problem(d, problem) ==
    IF problem.id # 0
    THEN [db |-> [d EXCEPT !.problems =
                    [id \in DOMAIN @ |->
                        IF id = problem.id
                        THEN [@[id] EXCEPT !.title = problem.title,
                                           !.short_summary = problem.short_summary,
                                           !.long_summary = problem.long_summary,
                                           !.solution = problem.solution,
                                           !.status = problem.status]
                        ELSE @[id]]],
          id |-> problem.id]
    ELSE LET new_id == d.next_problem_id
         IN  [db |-> [d EXCEPT
                        !.problems =
                            [id \in DOMAIN @ \cup {new_id} |->
                                IF id = new_id
                                THEN [problem EXCEPT !.id = new_id]
                                ELSE @[id]],
                        !.next_problem_id = new_id + 1],
              id |-> new_id]

\* a plain INSERT: a pair that is already linked fails the statement, and
\* nothing of the call is committed
link_messages_to_problem_plain(d, message_ids, problem_id) ==
    IF \E k \in 1..Len(message_ids) : <<problem_id, message_ids[k]>> \in d.links
    THEN d
    ELSE [d EXCEPT !.links = @ \cup {<<problem_id, message_ids[k]>> :
                                         k \in 1..Len(message_ids)}]

\* database.py:376-387: INSERT OR IGNORE, one row per message id
link_messages_to_problem(d, message_ids, problem_id) ==
    [d EXCEPT !.links = @ \cup {<<problem_id, message_ids[k]>> :
                                    k \in 1..Len(message_ids)}]

(***************************************************************************)
(* analyze_and_update, summarizer.py:310-421.  The coroutine is suspended  *)
(* at `await on_progress(...)` (an.pc = "progress") and at `await          *)
(* call_llm(...)` (an.pc = "llm"); everything between two suspension       *)
(* points is one step.  an.on_progress is the caller's callback: "None",   *)
(* "bot" (bot.py:277-282) or "custom" (any other caller-supplied           *)
(* callback, which may raise).  trace lists the calls the pass made, in    *)
(* order, each with the 0-based index of the chunk it was made for.        *)
(***************************************************************************)
Event(op, chunk, arg) == [op |-> op, chunk |-> chunk, arg |-> arg]

ZeroStats == [new_problems |-> 0, updated_problems |-> 0]

\* summarizer.py:211-216
status_label(status) ==
    IF status = "solved" THEN "SOLVED"
    ELSE IF status = "partial" THEN "HAS_INFO"
    ELSE "UNSOLVED"

\* problem_messages[-CONTEXT_MESSAGES_PER_PROBLEM:], summarizer.py:223
last_messages(msgs) ==
    LET n == Min(CONTEXT_MESSAGES_PER_PROBLEM, Len(msgs))
    IN  [j \in 1..n |-> msgs[Len(msgs) - n + j].telegram_msg_id]

\* summarizer.py:202-233: one entry per problem of the in-memory list
format_problems_context(d, problems) ==
    [k \in 1..Len(problems) |->
        [problem_id |-> problems[k].id,
         title |-> problems[k].title,
         status |-> status_label(problems[k].status),
         short_summary |-> problems[k].short_summary,
         last_messages |-> last_messages(get_messages_for_problem(d, problems[k].id))]]

\* summarizer.py:162-199, without texts and reply context: the ids rendered
format_messages_with_context(chunk) ==
    [k \in 1..Len(chunk) |-> chunk[k].telegram_msg_id]

\* summarizer.py:323
pass_chunks(a) == chunk_messages(a.new_messages, CHUNK_SIZE, DEFAULT_OVERLAP).chunks

\* summarizer.py:331-341: render the prompt of chunk a.i and call the LLM
issue_llm_call(a, d, t) ==
    LET chunk == pass_chunks(a)[a.i + 1]
        prompt == [problems_context |-> format_problems_context(d, a.existing_problems),
                   messages |-> format_messages_with_context(chunk)]
    IN  [an |-> [a EXCEPT !.pc = "llm"],
         trace |-> Append(t, Event("call_llm", a.i, prompt))]

\* summarizer.py:327-329: the head of the loop body for chunk a.i
enter_chunk(a, d, t) ==
    IF a.on_progress # "None"
    THEN [an |-> [a EXCEPT !.pc = "progress"],
          trace |-> Append(t, Event("on_progress", a.i,
                                    <<a.i + 1, Len(pass_chunks(a))>>))]
    ELSE issue_llm_call(a, d, t)

\* the early return is missing
is_empty_input_never(new_messages) == FALSE

\* summarizer.py:317: `if not new_messages`
is_empty_input(new_messages) == new_messages = <<>>

\* summarizer.py:283-292 over a response that either carries a decodable
\* JSON payload (kind "json") or does not (kind "malformed")
parse_llm_json(response) ==
    IF response.kind = "json"
    THEN [kind |-> "return", value |-> response.result]
    ELSE [kind |-> "raise", value |-> <<>>]

\* summarizer.py:345: {msg.telegram_msg_id: msg.id for msg in chunk}
msg_id_map(chunk) ==
    [tg \in {chunk[k].telegram_msg_id : k \in 1..Len(chunk)} |->
        LET last == CHOOSE k \in 1..Len(chunk) :
                        /\ chunk[k].telegram_msg_id = tg
                        /\ \A j \in (k + 1)..Len(chunk) : chunk[j].telegram_msg_id # tg
        IN  chunk[last].id]

\* an id that is no source id of the chunk is taken for a store id
resolve_message_ids_unfiltered(message_ids, map) ==
    [j \in 1..Len(message_ids) |->
        IF message_ids[j] \in DOMAIN map THEN map[message_ids[j]] ELSE message_ids[j]]

\* every message of the chunk counts as cited
resolve_message_ids_whole_chunk(message_ids, map) ==
    ListOfSet({map[tg] : tg \in DOMAIN map})

\* summarizer.py:362-366 and 401-405
resolve_message_ids(message_ids, map) ==
    LET kept == SelectSeq(message_ids, LAMBDA mid : mid \in DOMAIN map)
    IN  [j \in 1..Len(kept) |-> map[kept[j]]]

\* the new problem is not added to the in-memory list
remember_problem_forgotten(existing, problem) == existing

\* summarizer.py:371-372: existing_problems.append(problem), with its new id
remember_problem(existing, problem) == Append(existing, problem)

\* summarizer.py:348-372.  m = [db, existing, stats, trace, raised];
\* c = [chat_id, chunk, map].  An entry without "title" raises KeyError.
RECURSIVE merge_new_problems(_, _, _, _)
merge_new_problems(m, entries, k, c) ==
    IF k > Len(entries) \/ m.raised # ""
    THEN m
    ELSE LET e == entries[k]
         IN  IF ~ e.has_title
             THEN [m EXCEPT !.raised = "KeyError"]
             ELSE
             LET problem == [id |-> 0, chat_id |-> c.chat_id, title |-> e.title,
                             short_summary |-> e.short_summary,
                             long_summary |-> e.long_summary,
                             solution |-> e.solution,
                             status |-> IF e.status = "absent" THEN "unsolved"
                                        ELSE e.status]
                 saved == save_problem(m.db, problem)
                 msg_db_ids == resolve_message_ids(e.message_ids, c.map)
                 t1 == Append(m.trace, Event("save_problem", c.chunk,
                                             [id |-> saved.id, insert |-> TRUE]))
             IN  merge_new_problems(
                    [db |-> IF msg_db_ids # <<>>
                            THEN link_messages_to_problem(saved.db, msg_db_ids, saved.id)
                            ELSE saved.db,
                     existing |-> remember_problem(m.existing,
                                                   [problem EXCEPT !.id = saved.id]),
                     stats |-> [m.stats EXCEPT !.new_problems = @ + 1],
                     trace |-> IF msg_db_ids # <<>>
                               THEN Append(t1, Event("link_messages_to_problem",
                                                     c.chunk, saved.id))
                               ELSE t1,
                     raised |-> ""],
                    entries, k + 1, c)

\* the update of a problem that is not stored ends the merge with an error
skip_update_raises(m) == [m EXCEPT !.raised = "ValueError"]

\* summarizer.py:377-378 and 381-382: `continue`
skip_update(m) == m

\* every update of a stored problem is written and counted
update_needs_save_always(problem, u) == TRUE

\* summarizer.py:388-394: need_save
update_needs_save(problem, u) ==
    \/ u.new_status # "" /\ u.new_status # problem.status
    \/ u.solution # "" /\ u.solution # problem.solution

\* the given solution replaces the stored one even when it is empty
apply_update_overwrites_solution(problem, u) ==
    [problem EXCEPT
       !.status = IF u.new_status # "" /\ u.new_status # @ THEN u.new_status ELSE @,
       !.solution = u.solution]

\* summarizer.py:388-394: the object with the values that changed
apply_update(problem, u) ==
    [problem EXCEPT
       !.status = IF u.new_status # "" /\ u.new_status # @ THEN u.new_status ELSE @,
       !.solution = IF u.solution # "" /\ u.solution # @ THEN u.solution ELSE @]

\* summarizer.py:375-407.  A missing problem_id is 0, a missing new_status
\* or solution is "".
RECURSIVE merge_problem_updates(_, _, _, _)
merge_problem_updates(m, updates, k, c) ==
    IF k > Len(updates) \/ m.raised # ""
    THEN m
    ELSE LET u == updates[k]
             found == get_problem_by_id(m.db, u.problem_id)
         IN  IF u.problem_id = 0 \/ found = <<>>
             THEN merge_problem_updates(skip_update(m), updates, k + 1, c)
             ELSE
             LET problem == found[1]
                 need_save == update_needs_save(problem, u)
                 changed == apply_update(problem, u)
                 d1 == IF need_save THEN save_problem(m.db, changed).db ELSE m.db
                 t1 == IF need_save
                       THEN Append(m.trace, Event("save_problem", c.chunk,
                                                  [id |-> problem.id, insert |-> FALSE]))
                       ELSE m.trace
                 msg_db_ids == resolve_message_ids(u.message_ids, c.map)
             IN  merge_problem_updates(
                    [db |-> IF msg_db_ids # <<>>
                            THEN link_messages_to_problem(d1, msg_db_ids, u.problem_id)
                            ELSE d1,
                     existing |-> m.existing,
                     stats |-> IF need_save
                               THEN [m.stats EXCEPT !.updated_problems = @ + 1]
                               ELSE m.stats,
                     trace |-> IF msg_db_ids # <<>>
                               THEN Append(t1, Event("link_messages_to_problem",
                                                     c.chunk, u.problem_id))
                               ELSE t1,
                     raised |-> ""],
                    updates, k + 1, c)

\* summarizer.py:410-416
\* the lists are concatenated, not united
merged_meta_concat(meta, result) ==
    [overview |-> IF result.overview_update # "" THEN result.overview_update
                  ELSE meta.overview,
     decisions |-> meta.decisions \o result.new_decisions,
     key_points |-> meta.key_points \o result.new_key_points]

merged_meta(meta, result) ==
    [overview |-> IF result.overview_update # "" THEN result.overview_update
                  ELSE meta.overview,
     decisions |-> ListOfSet(Elems(meta.decisions) \cup Elems(result.new_decisions)),
     key_points |-> ListOfSet(Elems(meta.key_points) \cup Elems(result.new_key_points))]

\* the chat meta is not written at the end of the chunk
persist_meta_skipped(m, a, meta) == [db |-> m.db, trace |-> m.trace]

\* summarizer.py:418: save_chat_meta at the end of every chunk's merge
persist_meta(m, a, meta) ==
    [db |-> save_chat_meta(m.db, a.chat_id, meta.overview, meta.decisions,
                           meta.key_points),
     trace |-> Append(m.trace, Event("save_chat_meta", a.i, a.chat_id))]

\* summarizer.py:344-419: the merge of one chunk's parsed result
merge_chunk(a, d, t, result) ==
    LET chunk == pass_chunks(a)[a.i + 1]
        c == [chat_id |-> a.chat_id, chunk |-> a.i, map |-> msg_id_map(chunk)]
        m0 == [db |-> d, existing |-> a.existing_problems, stats |-> a.stats,
               trace |-> t, raised |-> ""]
        m1 == merge_new_problems(m0, result.new_problems, 1, c)
        m2 == merge_problem_updates(m1, result.problem_updates, 1, c)
        meta == merged_meta(a.meta, result)
    IN  IF m2.raised # ""
        THEN m2 @@ [meta |-> a.meta]
        ELSE [db |-> persist_meta(m2, a, meta).db,
              existing |-> m2.existing,
              stats |-> m2.stats,
              trace |-> persist_meta(m2, a, meta).trace,
              raised |-> "",
              meta |-> meta]

\* the pass ends by an exception leaving analyze_and_update
raise_from_pass(a, error) ==
    [a EXCEPT !.pc = "done", !.outcome = [kind |-> "raise", error |-> error]]

\* summarizer.py:327 and 421: after the merge of chunk a.i, the next chunk
\* or the return of the counts
after_merge(a, d, t) ==
    IF a.i + 1 < Len(pass_chunks(a))
    THEN enter_chunk([a EXCEPT !.i = @ + 1], d, t) @@ [db |-> d]
    ELSE [an |-> [a EXCEPT !.pc = "done",
                           !.outcome = [kind |-> "return", stats |-> a.stats]],
          db |-> d, trace |-> t]

\* the chunk whose response does not parse is skipped
on_parse_failure_skip(a, d, t) == after_merge(a, d, t)

\* summarizer.py:342: the exception of parse_llm_json leaves the pass
on_parse_failure(a, d, t) ==
    [an |-> raise_from_pass(a, "JSONDecodeError"), db |-> d, trace |-> t]

\* summarizer.py:342-421: from the LLM's response to the next suspension
on_llm_response(a, d, t, response) ==
    LET parsed == parse_llm_json(response)
        a1 == [a EXCEPT !.response = response]
    IN  IF parsed.kind = "raise"
        THEN on_parse_failure(a1, d, t)
        ELSE LET m == merge_chunk(a1, d, t, parsed.value)
                 a2 == [a1 EXCEPT !.existing_problems = m.existing,
                                  !.stats = m.stats, !.meta = m.meta]
             IN  IF m.raised # ""
                 THEN [an |-> raise_from_pass(a2, m.raised), db |-> m.db,
                       trace |-> m.trace]
                 ELSE after_merge(a2, m.db, m.trace)

(***************************************************************************)
(* Specification SpecAnalyze: one pass of analyze_and_update over a store  *)
(* with two chats.  Chat 1 holds the messages to analyse; with             *)
(* `preexisting` both chats already hold one problem, linked to their      *)
(* first message.  The sizes of the batch make a pass of no, one, two and  *)
(* three chunks.                                                           *)
(***************************************************************************)
ChatIds == {1, 2}

BatchSizes == {0, 2, 41, 76}

Callbacks == {"None", "bot", "custom"}

InitialMessages(n) ==
    {[id |-> 1, chat_id |-> 1, telegram_msg_id |-> 501],
     [id |-> 2, chat_id |-> 2, telegram_msg_id |-> 501]}
        \cup {[id |-> k, chat_id |-> 1, telegram_msg_id |-> 500 + k] : k \in 3..(n + 2)}

InitialDb(n, preexisting) ==
    IF preexisting
    THEN [messages |-> InitialMessages(n),
          problems |-> (1 :> [id |-> 1, chat_id |-> 1, title |-> "p1",
                              short_summary |-> "s1", long_summary |-> "l1",
                              solution |-> "", status |-> "unsolved"])
                       @@ (2 :> [id |-> 2, chat_id |-> 2, title |-> "p2",
                                 short_summary |-> "s2", long_summary |-> "l2",
                                 solution |-> "x2", status |-> "solved"]),
          next_problem_id |-> 3,
          links |-> {<<1, 1>>, <<2, 2>>},
          chat_meta |-> (1 :> [overview |-> "o0", decisions |-> <<"d0">>,
                               key_points |-> <<>>])]
    ELSE [EmptyDb EXCEPT !.messages = InitialMessages(n)]

InitAnalyze ==
    /\ \E n \in BatchSizes, preexisting \in BOOLEAN : db = InitialDb(n, preexisting)
    /\ an = IdlePass
    /\ trace = <<>>
    /\ ag = IdleAgent
    /\ mp = IdlePage
    /\ gw = IdleGateway
    /\ so = NoStoreOp
    /\ pj = IdleParse
    /\ rg = IdleRegen
    /\ an2 = IdlePass
    /\ mh = NoHistory
    /\ cm_pc = "idle"
    /\ cm_messages = <<>>
    /\ cm_chunk_size = 1
    /\ cm_overlap = 0
    /\ cm_result = NoResult

\* What the LLM may answer to the prompt of chunk a.i: new problems citing a
\* message of the chunk and an id that is no message of it, updates citing
\* no id, the newest problem of the context, or an id the store never gave.
FirstCited(chunk) == IF chunk = <<>> THEN 0 ELSE chunk[1].telegram_msg_id

LastCited(chunk) == IF chunk = <<>> THEN 0 ELSE chunk[Len(chunk)].telegram_msg_id

NewProblemLists(chunk) ==
    {<<>>,
     <<[has_title |-> TRUE, title |-> "t", short_summary |-> "s",
        long_summary |-> "l", solution |-> "", status |-> "absent",
        message_ids |-> <<FirstCited(chunk), 0>>]>>,
     <<[has_title |-> FALSE, title |-> "", short_summary |-> "s",
        long_summary |-> "l", solution |-> "", status |-> "solved",
        message_ids |-> <<>>]>>}

CitedProblemIds(a, d) ==
    {0, d.next_problem_id}
        \cup (IF a.existing_problems = <<>> THEN {}
              ELSE {a.existing_problems[Len(a.existing_problems)].id})

ProblemUpdateLists(a, d, chunk) ==
    {<<>>} \cup
    {<<[problem_id |-> p, new_status |-> "solved", solution |-> "fix",
        message_ids |-> <<LastCited(chunk)>>]>> :
            p \in CitedProblemIds(a, d)}

MetaDeltas ==
    {[overview_update |-> "", new_decisions |-> <<>>, new_key_points |-> <<>>],
     [overview_update |-> "o1", new_decisions |-> <<"d1">>,
      new_key_points |-> <<"k1">>]}

LLMResponses(a, d) ==
    LET chunk == pass_chunks(a)[a.i + 1]
    IN  {[kind |-> "malformed"]} \cup
        {[kind |-> "json",
          result |-> [new_problems |-> np, problem_updates |-> pu,
                      overview_update |-> md.overview_update,
                      new_decisions |-> md.new_decisions,
                      new_key_points |-> md.new_key_points]] :
            np \in NewProblemLists(chunk),
            pu \in ProblemUpdateLists(a, d, chunk),
            md \in MetaDeltas}

\* analyze_and_update is called, summarizer.py:310-329: up to the first await
AnalyzeCall(chat_id, new_messages, on_progress) ==
    /\ an.pc = "idle"
    /\ LET a0 == [IdlePass EXCEPT !.chat_id = chat_id,
                                  !.new_messages = new_messages,
                                  !.on_progress = on_progress]
       IN  IF is_empty_input(new_messages)
           THEN /\ an' = [a0 EXCEPT !.pc = "done",
                                    !.outcome = [kind |-> "return", stats |-> ZeroStats]]
                /\ UNCHANGED <<db, trace>>
           ELSE LET a1 == [a0 EXCEPT
                             !.existing_problems = get_problems_by_chat(db, chat_id),
                             !.meta = get_chat_meta(db, chat_id)]
                    r == enter_chunk(a1, db, trace)
                IN  /\ an' = r.an
                    /\ trace' = r.trace
                    /\ UNCHANGED db
    /\ UNCHANGED <<chunkVars, ag, mp, gw, mh, otherVars>>

\* the callback returns.  bot.py:277-282: with more than one chunk the bot
\* edits its status message; a failure of the edit is swallowed there.
ProgressReturns(edit_ok) ==
    /\ an.pc = "progress"
    /\ LET total == Len(pass_chunks(an))
           a1 == IF an.on_progress = "bot" /\ total > 1 /\ edit_ok
                 THEN [an EXCEPT !.status_msg = <<an.i + 1, total>>]
                 ELSE an
           r == issue_llm_call(a1, db, trace)
       IN  /\ an' = r.an
           /\ trace' = r.trace
    /\ UNCHANGED <<db, chunkVars, ag, mp, gw, mh, otherVars>>

\* a caller-supplied callback raises: summarizer.py:329 has no handler
ProgressRaises ==
    /\ an.pc = "progress"
    /\ an.on_progress = "custom"
    /\ an' = raise_from_pass([an EXCEPT !.progress_failures = @ + 1], "on_progress")
    /\ UNCHANGED <<db, trace, chunkVars, ag, mp, gw, mh, otherVars>>

\* call_llm returns the response text, summarizer.py:341
LlmResponds ==
    /\ an.pc = "llm"
    /\ \E response \in LLMResponses(an, db) :
          LET r == on_llm_response(an, db, trace, response)
          IN  /\ an' = r.an
              /\ db' = r.db
              /\ trace' = r.trace
    /\ UNCHANGED <<chunkVars, ag, mp, gw, mh, otherVars>>

\* call_llm raises after its last attempt, llm_client.py:61-62
LlmCallFails ==
    /\ an.pc = "llm"
    /\ an' = raise_from_pass(an, "gateway")
    /\ UNCHANGED <<db, trace, chunkVars, ag, mp, gw, mh, otherVars>>

NextAnalyze ==
    \/ /\ an.pc = "idle"
       /\ \E chat_id \in ChatIds, on_progress \in Callbacks :
             \E new_messages \in {get_unprocessed_messages(db, chat_id), <<>>} :
                AnalyzeCall(chat_id, new_messages, on_progress)
    \/ \E edit_ok \in BOOLEAN : ProgressReturns(edit_ok)
    \/ ProgressRaises
    \/ LlmResponds
    \/ LlmCallFails

SpecAnalyze == InitAnalyze /\ [][NextAnalyze]_vars

(***************************************************************************)
(* Claims about analyze_and_update (checked under SpecAnalyze).            *)
(***************************************************************************)
TraceOps(ops) == {k \in 1..Len(trace) : trace[k].op \in ops}

WriteOps == {"save_problem", "link_messages_to_problem", "save_chat_meta"}

\* the ids of the problems the pass created while merging chunk i
CreatedIn(t, i) ==
    {t[k].arg.id : k \in {j \in 1..Len(t) :
        t[j].op = "save_problem" /\ t[j].chunk = i /\ t[j].arg.insert}}

\* C5: analyze_and_update called with an empty new_messages list returns
\* zero counts, calls neither the LLM nor the progress callback and writes
\* nothing to the store.
C5_EmptyInputNoEffect ==
    [][(an.pc = "idle" /\ an'.pc # "idle" /\ an'.new_messages = <<>>) =>
          /\ an'.pc = "done"
          /\ an'.outcome = [kind |-> "return", stats |-> ZeroStats]
          /\ db' = db
          /\ trace' = <<>>]_vars

C5_Witness ==
    /\ an.pc = "done"
    /\ an.new_messages = <<>>
    /\ an.on_progress = "bot"
    /\ an.outcome = [kind |-> "return", stats |-> ZeroStats]
    /\ get_unprocessed_messages(db, an.chat_id) # <<>>
    /\ db.problems # <<>>

\* C6: every problem created while merging chunk i is, with the id the
\* store gave it, in the problems context of the prompt of chunk i+1, is a
\* row of the store when chunk i+1 is merged, and a problem_update of chunk
\* i+1 that cites it changes its status and links the chunk's messages.
C6_ContextHasCreated ==
    \A b \in TraceOps({"call_llm"}) :
        \A p \in CreatedIn(SubSeq(trace, 1, b), trace[b].chunk - 1) :
            /\ \E k \in 1..Len(trace[b].arg.problems_context) :
                  trace[b].arg.problems_context[k].problem_id = p
            /\ p \in DOMAIN db.problems
            /\ db.problems[p].chat_id = an.chat_id

C6_UpdateApplies ==
    (/\ an.pc = "llm"
     /\ an' # an
     /\ an'.response.kind = "json"
     /\ an'.outcome.kind # "raise") =>
        LET updates == an'.response.result.problem_updates
            chunk == pass_chunks(an)[an.i + 1]
        IN  \A k \in 1..Len(updates) :
               (/\ updates[k].problem_id \in CreatedIn(trace, an.i - 1)
                /\ \A j \in (k + 1)..Len(updates) :
                      updates[j].problem_id # updates[k].problem_id) =>
                  /\ updates[k].new_status # "" =>
                        db'.problems[updates[k].problem_id].status
                            = updates[k].new_status
                  /\ \A q \in 1..Len(chunk) :
                        chunk[q].telegram_msg_id \in Elems(updates[k].message_ids) =>
                            <<updates[k].problem_id, chunk[q].id>> \in db'.links

C6_CreatedProblemVisibleNextChunk ==
    [] C6_ContextHasCreated /\ [][C6_UpdateApplies]_vars

C6_Witness ==
    \E a, b, c \in 1..Len(trace) :
        /\ a < b /\ b < c
        /\ trace[a].op = "save_problem" /\ trace[a].arg.insert /\ trace[a].chunk = 0
        /\ trace[b].op = "save_problem" /\ ~ trace[b].arg.insert /\ trace[b].chunk = 1
        /\ trace[b].arg.id = trace[a].arg.id
        /\ trace[c].op = "link_messages_to_problem" /\ trace[c].chunk = 1
        /\ trace[c].arg = trace[a].arg.id
        /\ db.problems[trace[a].arg.id].status = "solved"

\* C7: the chunks of a pass are processed in source order, one at a time:
\* the LLM call of chunk i+1 is made only after every store write of chunk
\* i's merge, save_chat_meta included.
C7_ChunksInOrder ==
    /\ \A a, b \in 1..Len(trace) : a < b => trace[a].chunk <= trace[b].chunk
    /\ \A a, b \in TraceOps({"call_llm"}) : a < b => trace[a].chunk < trace[b].chunk
    /\ \A b \in TraceOps({"call_llm"}) :
          trace[b].chunk > 0 =>
             /\ \E a \in 1..(b - 1) :
                   /\ trace[a].op = "save_chat_meta"
                   /\ trace[a].chunk = trace[b].chunk - 1
             /\ \E a \in 1..(b - 1) :
                   /\ trace[a].op = "call_llm"
                   /\ trace[a].chunk = trace[b].chunk - 1
    /\ \A w \in TraceOps(WriteOps) :
          \E a \in 1..(w - 1) :
             trace[a].op = "call_llm" /\ trace[a].chunk = trace[w].chunk

C7_Witness ==
    /\ an.pc = "done"
    /\ an.outcome.kind = "return"
    /\ Cardinality(TraceOps({"call_llm"})) = 3
    /\ Cardinality(TraceOps({"save_problem"})) >= 3
    /\ Cardinality(TraceOps({"save_chat_meta"})) = 3

\* C8: if the response for chunk k does not parse, the pass ends by raising:
\* nothing is written for chunk k, no later chunk is extracted, and the
\* writes of the chunks before k stay in the store.
C8_ParseFailureStep ==
    (an.pc = "llm" /\ an' # an /\ an'.response.kind = "malformed") =>
        /\ an'.pc = "done"
        /\ an'.outcome = [kind |-> "raise", error |-> "JSONDecodeError"]
        /\ db' = db
        /\ trace' = trace

C8_AfterParseFailure ==
    (an.pc = "done" /\ an.response.kind = "malformed") =>
        /\ an.outcome.kind = "raise"
        /\ trace[Len(trace)].op = "call_llm"
        /\ trace[Len(trace)].chunk = an.i
        /\ \A k \in 1..Len(trace) : trace[k].chunk <= an.i
        /\ \A w \in TraceOps(WriteOps) : trace[w].chunk < an.i
        /\ \A p \in UNION {CreatedIn(trace, i) : i \in 0..(an.i - 1)} :
              p \in DOMAIN db.problems

C8_ParseFailureAborts ==
    /\ [][C8_ParseFailureStep]_vars
    /\ [] C8_AfterParseFailure
    /\ [][an.pc = "done" => UNCHANGED <<an, db, trace>>]_vars

C8_Witness ==
    /\ an.pc = "done"
    /\ an.response.kind = "malformed"
    /\ an.i = 1
    /\ Len(pass_chunks(an)) = 3
    /\ CreatedIn(trace, 0) # {}
    /\ CreatedIn(trace, 0) \subseteq DOMAIN db.problems
    /\ an.chat_id \in DOMAIN db.chat_meta

\* C9 as stated: if the on_progress callback raises, the pass is not
\* aborted: it still ends by returning its counts.
C9_ProgressFailureDoesNotAbort ==
    (an.pc = "done" /\ an.progress_failures > 0) => an.outcome.kind = "return"

(***************************************************************************)
(* The query agent, query_agent.py.                                        *)
(*                                                                         *)
(* A rendered text is modelled by the record of what it is built from.     *)
(* A tool call is [id, name, decodable, args]: args is the dict that       *)
(* json.loads gives for its arguments string, decodable is FALSE when      *)
(* json.loads raises JSONDecodeError.                                      *)
(***************************************************************************)
MAX_ITERATIONS == 10

DEFAULT_PAGE_SIZE == 10

NoProblemsText == "no_problems_in_chat"

ExhaustedText == "steps_exhausted"

GatewayErrorText == "gateway_error"

\* dict.get(key, default)
PyGet(args, key, default) == IF key \in DOMAIN args THEN args[key] ELSE default

\* Python's a // b for b # 0
PyFloorDiv(a, b) == IF b > 0 THEN a \div b ELSE (0 - a) \div (0 - b)

\* status_map.get(p.status, p.status)
agent_status_label(status) ==
    IF status = "solved" THEN "resheno"
    ELSE IF status = "partial" THEN "est_informaciya"
    ELSE IF status = "unsolved" THEN "ne_resheno"
    ELSE status

format_problems_list(problems) ==
    [i \in 1..Len(problems) |->
        [index |-> i - 1, title |-> problems[i].title,
         status |-> agent_status_label(problems[i].status),
         short_summary |-> problems[i].short_summary]]

format_problem_details(problems, indices) ==
    [j \in 1..Len(indices) |->
        IF indices[j] < 0 \/ indices[j] >= Len(problems)
        THEN [kind |-> "problem_not_found", index |-> indices[j]]
        ELSE LET p == problems[indices[j] + 1]
             IN  [kind |-> "problem", index |-> indices[j], title |-> p.title,
                  status |-> agent_status_label(p.status),
                  long_summary |-> p.long_summary, solution |-> p.solution]]

\* a page count that forgets the last, partly filled page
total_pages_floor(total, page_size) ==
    IF total > 0 THEN PyFloorDiv(total, page_size) ELSE 1

\* the page count, computed only when there are messages
total_pages_of(total, page_size) ==
    IF total > 0 THEN PyFloorDiv(total + page_size - 1, page_size) ELSE 1

format_messages_page(messages, page, page_size) ==
    LET total == Len(messages)
    IN  IF total > 0 /\ page_size = 0
        THEN [kind |-> "raise", error |-> "ZeroDivisionError"]
        ELSE LET total_pages == total_pages_of(total, page_size)
                 pg          == IF page < 1 THEN 1 ELSE page
             IN  IF pg > total_pages
                 THEN [kind |-> "return",
                       value |-> [kind |-> "no_such_page", page |-> pg,
                                  total_pages |-> total_pages]]
                 ELSE LET start == (pg - 1) * page_size
                          end   == Min(start + page_size, total)
                      IN  [kind |-> "return",
                           value |-> [kind |-> "page", page |-> pg,
                                      total_pages |-> total_pages,
                                      total |-> total,
                                      items |-> [j \in 1..Len(PySliceAny(messages, start, end)) |->
                                                    PySliceAny(messages, start, end)[j].id]]]

\* update_status: awaits on_status when there is one; raises = the callback
\* raises, which only a callback other than the bot's can do
update_status(a, status, details, raises) ==
    IF a.on_status = "None" THEN a
    ELSE IF raises /\ a.on_status = "custom"
    THEN [a EXCEPT !.status_failures = @ + 1, !.pc = "done",
                   !.outcome = [kind |-> "raise", error |-> "on_status"]]
    ELSE [a EXCEPT !.statuses = Append(@, [status |-> status, details |-> details])]

agent_return(a, text) ==
    [a EXCEPT !.pc = "done", !.outcome = [kind |-> "return", text |-> text]]

agent_raise(a, error) ==
    [a EXCEPT !.pc = "done", !.outcome = [kind |-> "raise", error |-> error]]

\* a tool result that does not say which call it answers
tool_message_untagged(tool_call, result) ==
    [role |-> "tool", tool_call_id |-> "", content |-> result,
     tool_calls |-> <<>>]

tool_message(tool_call, result) ==
    [role |-> "tool", tool_call_id |-> tool_call.id, content |-> result,
     tool_calls |-> <<>>]

\* the loop's bound: range(MAX_ITERATIONS) is over after this many rounds
loop_over(iteration) == iteration >= MAX_ITERATIONS

\* run_query_agent up to its first gateway call; raise_at = which of the two
\* status reports raises (0: neither)
agent_start(chat_id, on_status, d, raise_at) ==
    LET a0 == [IdleAgent EXCEPT !.pc = "running", !.chat_id = chat_id,
                                !.on_status = on_status]
        a1 == update_status(a0, "loading", "None", raise_at = 1)
        problems == get_problems_by_chat(d, chat_id)
        meta == get_chat_meta(d, chat_id)
        a2 == [a1 EXCEPT !.problems = problems,
                         !.messages = <<[role |-> "system", content |-> "SYSTEM_PROMPT",
                                         tool_calls |-> <<>>, tool_call_id |-> ""],
                                        [role |-> "user",
                                         content |-> [overview |-> meta.overview,
                                                      problems_list |-> format_problems_list(problems)],
                                         tool_calls |-> <<>>, tool_call_id |-> ""]>>]
        a3 == update_status(a2, "analysing", "None", raise_at = 2)
    IN  IF a1.pc = "done" THEN a1
        ELSE IF problems = <<>> THEN agent_return(a1, NoProblemsText)
        ELSE IF a3.pc = "done" THEN a3
        ELSE IF loop_over(0) THEN [a3 EXCEPT !.pc = "exhausted"]
        ELSE [a3 EXCEPT !.pc = "llm"]

\* the gateway answered: query_agent.py:316-327
agent_on_response(a, response, raises) ==
    LET a1 == [a EXCEPT !.gateway_calls = @ + 1,
                        !.messages = Append(@, [role |-> "assistant",
                                                content |-> response.content,
                                                tool_calls |-> response.tool_calls,
                                                tool_call_id |-> ""])]
        a2 == update_status(a1, "done", "None", raises)
    IN  IF response.tool_calls = <<>>
        THEN IF a2.pc = "done" THEN a2 ELSE agent_return(a2, response.content)
        ELSE [a1 EXCEPT !.pc = "tool", !.tool_calls = response.tool_calls, !.k = 1]

\* the gateway call raised: query_agent.py:310-314
agent_on_gateway_error(a) ==
    agent_return([a EXCEPT !.gateway_calls = @ + 1, !.gateway_failures = @ + 1],
                 GatewayErrorText)

\* the list is read from the store again at every tool call
problems_of_run_reloaded(a, d) == get_problems_by_chat(d, a.chat_id)

\* query_agent.py:281: the local `problems`, read once before the loop and
\* used by every tool call (339, 346, 353)
problems_of_run(a, d) == a.problems

\* one tool call of the current response: query_agent.py:330-369;
\* a.message_reads lists the problems whose messages were read from the store
run_tool(a, d, raises) ==
    LET tool_call == a.tool_calls[a.k]
        args == IF tool_call.decodable THEN tool_call.args ELSE <<>>
        indices == PyGet(args, "problem_indices", <<>>)
        idx == PyGet(args, "problem_index", 0)
        page == PyGet(args, "page", 1)
        page_size == PyGet(args, "page_size", DEFAULT_PAGE_SIZE)
    IN  IF tool_call.name = "get_problems_details"
        THEN LET a1 == IF indices # <<>>
                       THEN update_status(a, "viewing_problems", indices, raises)
                       ELSE a
             IN  [a |-> a1, result |-> format_problem_details(problems_of_run(a, d), indices)]
        ELSE IF tool_call.name = "get_problem_messages"
        THEN IF idx < 0 \/ idx >= Len(problems_of_run(a, d))
             THEN [a |-> a, result |-> [kind |-> "problem_not_found", index |-> idx]]
             ELSE LET a1 == update_status(a, "reading_messages", <<idx, page>>, raises)
                      problem_messages ==
                          get_messages_for_problem(d, problems_of_run(a, d)[idx + 1].id)
                      r == format_messages_page(problem_messages, page, page_size)
                      a2 == [a1 EXCEPT !.message_reads =
                                          Append(@, problems_of_run(a, d)[idx + 1].id)]
                  IN  IF a1.pc = "done" THEN [a |-> a1, result |-> <<>>]
                      ELSE IF r.kind = "raise"
                      THEN [a |-> agent_raise(a2, r.error), result |-> <<>>]
                      ELSE [a |-> a2, result |-> r.value]
        ELSE [a |-> a, result |-> [kind |-> "unknown_tool", name |-> tool_call.name]]

agent_tool_step(a, d, raises) ==
    LET t == run_tool(a, d, raises)
        a1 == [t.a EXCEPT !.messages = Append(@, tool_message(a.tool_calls[a.k], t.result))]
    IN  IF t.a.pc = "done" THEN t.a
        ELSE IF a.k < Len(a.tool_calls) THEN [a1 EXCEPT !.k = @ + 1]
        ELSE IF loop_over(a.iteration + 1)
        THEN [a1 EXCEPT !.iteration = @ + 1, !.tool_calls = <<>>, !.k = 0,
                        !.pc = "exhausted"]
        ELSE [a1 EXCEPT !.iteration = @ + 1, !.tool_calls = <<>>, !.k = 0,
                        !.pc = "llm"]

\* after the loop: query_agent.py:371-373
agent_give_up(a, raises) ==
    LET a1 == update_status(a, "done", "None", raises)
    IN  IF a1.pc = "done" THEN a1 ELSE agent_return(a1, ExhaustedText)

(***************************************************************************)
(* Runs of the agent: one question against a store that holds problems of  *)
(* two chats, or none; the gateway answers each call with a final text,    *)
(* with tool calls, or fails.                                              *)
(***************************************************************************)
ToolCall(id, name, args) ==
    [id |-> id, name |-> name, decodable |-> TRUE, args |-> args]

ToolCallLists ==
    {<<ToolCall("call_1", "get_problems_details", [problem_indices |-> <<0>>])>>,
     <<ToolCall("call_1", "get_problem_messages", [problem_index |-> 0]),
       ToolCall("call_2", "search_web", [query |-> "q"])>>,
     <<ToolCall("call_1", "get_problem_messages",
                [problem_index |-> 0, page |-> 1, page_size |-> 0])>>}

AgentResponses ==
    {[content |-> "answer", tool_calls |-> <<>>]}
        \cup {[content |-> "", tool_calls |-> tc] : tc \in ToolCallLists}

InitAgent ==
    /\ cm_pc = "idle"
    /\ cm_messages = <<>>
    /\ cm_chunk_size = 1
    /\ cm_overlap = 0
    /\ cm_result = NoResult
    /\ db \in {InitialDb(2, TRUE), InitialDb(2, FALSE)}
    /\ an = IdlePass
    /\ trace = <<>>
    /\ ag = IdleAgent
    /\ mp = IdlePage
    /\ gw = IdleGateway
    /\ so = NoStoreOp
    /\ pj = IdleParse
    /\ rg = IdleRegen
    /\ an2 = IdlePass
    /\ mh = NoHistory

AgentCall(chat_id, on_status) ==
    /\ ag.pc = "idle"
    /\ \E raise_at \in {0, 1, 2} : ag' = agent_start(chat_id, on_status, db, raise_at)
    /\ UNCHANGED <<chunkVars, db, an, trace, mp, gw, mh, otherVars>>

GatewayResponds ==
    /\ ag.pc = "llm"
    /\ \E response \in AgentResponses, raises \in BOOLEAN :
           ag' = agent_on_response(ag, response, raises)
    /\ UNCHANGED <<chunkVars, db, an, trace, mp, gw, mh, otherVars>>

GatewayFails ==
    /\ ag.pc = "llm"
    /\ ag' = agent_on_gateway_error(ag)
    /\ UNCHANGED <<chunkVars, db, an, trace, mp, gw, mh, otherVars>>

ToolStep ==
    /\ ag.pc = "tool"
    /\ \E raises \in BOOLEAN : ag' = agent_tool_step(ag, db, raises)
    /\ UNCHANGED <<chunkVars, db, an, trace, mp, gw, mh, otherVars>>

GiveUp ==
    /\ ag.pc = "exhausted"
    /\ \E raises \in BOOLEAN : ag' = agent_give_up(ag, raises)
    /\ UNCHANGED <<chunkVars, db, an, trace, mp, gw, mh, otherVars>>

NextAgent ==
    \/ \E chat_id \in ChatIds, on_status \in Callbacks : AgentCall(chat_id, on_status)
    \/ GatewayResponds
    \/ GatewayFails
    \/ ToolStep
    \/ GiveUp

SpecAgent == InitAgent /\ [][NextAgent]_vars

(***************************************************************************)
(* Claims about the agent's loop.                                          *)
(***************************************************************************)
\* the responses the gateway gave in this run
AssistantMessages == {j \in 1..Len(ag.messages) : ag.messages[j].role = "assistant"}

\* C10 as stated: a run makes at most MAX_ITERATIONS gateway calls, and a
\* run in which the gateway answered every call and every answer carried
\* tool calls ends by returning the fixed "steps exhausted" text as a normal
\* result. (Runs whose status callback raised are left aside here.)
C10_ToolCallsOnlyEndsInFixedText ==
    /\ ag.gateway_calls <= MAX_ITERATIONS
    /\ (/\ ag.pc = "done"
        /\ ag.gateway_calls > 0
        /\ ag.gateway_failures = 0
        /\ ag.status_failures = 0
        /\ \A j \in AssistantMessages : ag.messages[j].tool_calls # <<>>)
           => ag.outcome = [kind |-> "return", text |-> ExhaustedText]

\* the part of C10 that the loop bound alone gives: no run makes more than
\* MAX_ITERATIONS gateway calls, and a run that got through every round of
\* tool calls returns the fixed text
AgentLoopBounded ==
    /\ ag.gateway_calls <= MAX_ITERATIONS
    /\ ag.iteration <= MAX_ITERATIONS
    /\ (ag.pc = "done" /\ ag.iteration = MAX_ITERATIONS /\ ag.status_failures = 0)
           => ag.outcome = [kind |-> "return", text |-> ExhaustedText]

\* C11 as stated: when the chat has no problems, the run returns the fixed
\* empty-answer text and never calls the gateway.
C11_NoProblemsFixedText ==
    (ag.pc = "done" /\ get_problems_by_chat(db, ag.chat_id) = <<>>) =>
        /\ ag.outcome = [kind |-> "return", text |-> NoProblemsText]
        /\ ag.gateway_calls = 0

\* what holds of a chat without problems whatever the callback does: the
\* gateway is never called, no conversation is built, and no text other
\* than the fixed one is returned
NoProblemsNoGatewayCall ==
    (ag.pc # "idle" /\ get_problems_by_chat(db, ag.chat_id) = <<>>) =>
        /\ ag.pc = "done"
        /\ ag.gateway_calls = 0
        /\ ag.messages = <<>>
        /\ ag.outcome.kind = "return" => ag.outcome.text = NoProblemsText

RECURSIVE LastAssistantUpTo(_)
LastAssistantUpTo(n) ==
    IF n = 0 THEN 0
    ELSE IF ag.messages[n].role = "assistant" THEN n
    ELSE LastAssistantUpTo(n - 1)

\* the last response of the gateway in the conversation (0: none yet)
LastAssistant == LastAssistantUpTo(Len(ag.messages))

\* C12 as stated: a response that carries no tool calls ends the loop: it
\* is the last message of the conversation, no gateway call follows it, and
\* its text content is what the run returns.
C12_FinalAnswerReturnedVerbatim ==
    (ag.pc = "done" /\ LastAssistant > 0
        /\ ag.messages[LastAssistant].tool_calls = <<>>) =>
        /\ LastAssistant = Len(ag.messages)
        /\ ag.gateway_calls = Cardinality(AssistantMessages)
        /\ ag.outcome = [kind |-> "return",
                         text |-> ag.messages[LastAssistant].content]

\* what holds of a final answer whatever the callback does: the run is over
\* with it, and any text returned is its content
FinalAnswerEndsLoop ==
    \A j \in AssistantMessages :
        ag.messages[j].tool_calls = <<>> =>
            /\ j = Len(ag.messages)
            /\ ag.pc = "done"
            /\ ag.outcome.kind = "return" => ag.outcome.text = ag.messages[j].content

\* reading the conversation from message m on, j being the response before
\* m: every tool result answers the call of that response at its position,
\* under that call's id, and a response is followed by another only after
\* all of its calls were answered
RECURSIVE ResultsFollow(_, _)
ResultsFollow(m, j) ==
    IF m > Len(ag.messages) THEN TRUE
    ELSE IF ag.messages[m].role = "assistant"
    THEN /\ m - j - 1 = Len(ag.messages[j].tool_calls)
         /\ ResultsFollow(m + 1, m)
    ELSE /\ ag.messages[m].role = "tool"
         /\ m - j <= Len(ag.messages[j].tool_calls)
         /\ ag.messages[m].tool_call_id = ag.messages[j].tool_calls[m - j].id
         /\ ResultsFollow(m + 1, j)

\* the results that follow the last response
AnsweredOfLast == Len(ag.messages) - LastAssistant

C13_ConversationShape ==
    ag.messages # <<>> =>
        /\ ag.messages[1].role = "system"
        /\ ag.messages[2].role = "user"
        /\ Len(ag.messages) > 2 =>
              /\ ag.messages[3].role = "assistant"
              /\ ResultsFollow(4, 3)
              \* the next gateway call is due: every call was answered
              /\ ag.pc \in {"llm", "exhausted"} =>
                    AnsweredOfLast = Len(ag.messages[LastAssistant].tool_calls)
              \* the calls of the last response are being executed
              /\ ag.pc = "tool" => AnsweredOfLast = ag.k - 1

\* a gateway response is appended as it arrives, before anything else
C13_ResponseAppendedFirst ==
    (ag.pc = "llm" /\ ag'.gateway_calls = ag.gateway_calls + 1
        /\ ag'.gateway_failures = ag.gateway_failures) =>
        /\ Len(ag'.messages) = Len(ag.messages) + 1
        /\ SubSeq(ag'.messages, 1, Len(ag.messages)) = ag.messages
        /\ ag'.messages[Len(ag'.messages)].role = "assistant"

\* executing a tool call appends nothing but that call's result
C13_OneResultPerCall ==
    (ag.pc = "tool" /\ ag'.pc # "done") =>
        /\ Len(ag'.messages) = Len(ag.messages) + 1
        /\ SubSeq(ag'.messages, 1, Len(ag.messages)) = ag.messages
        /\ ag'.messages[Len(ag'.messages)].role = "tool"
        /\ ag'.messages[Len(ag'.messages)].tool_call_id = ag.tool_calls[ag.k].id

C14_StatusFailureDoesNotAbort ==
    (ag.pc = "done" /\ ag.status_failures > 0) =>
        /\ ag.outcome.kind = "return"
        /\ LastAssistant > 0 =>
              AnsweredOfLast = Len(ag.messages[LastAssistant].tool_calls)

\* C19 as stated: when the gateway call fails after its retries, the run
\* ends with a raised error, not with a returned answer text.
C19_GatewayExhaustionRaised ==
    (ag.pc = "done" /\ ag.gateway_failures > 0) => ag.outcome.kind = "raise"

(***************************************************************************)
(* One get_problem_messages tool call on problem 0 of a chat, for every    *)
(* number of linked messages, page and page_size within the bounds         *)
(* (query_agent.py:345-357 with format_messages_page).                     *)
(***************************************************************************)
MaxTotal == 12

MaxPage == 5

MaxPageSize == 10

\* a store whose problem 1 has n linked messages; the rows were inserted in
\* the reverse of their source order, so row ids and source ids disagree
PageDb(n) ==
    [messages |-> {[id |-> k, chat_id |-> 1, telegram_msg_id |-> 500 + (n + 1 - k)] :
                      k \in 1..n},
     problems |-> (1 :> [id |-> 1, chat_id |-> 1, title |-> "p1",
                         short_summary |-> "s1", long_summary |-> "l1",
                         solution |-> "", status |-> "unsolved"]),
     next_problem_id |-> 2,
     links |-> {<<1, k>> : k \in 1..n},
     chat_meta |-> <<>>]

InitPage ==
    /\ cm_pc = "idle"
    /\ cm_messages = <<>>
    /\ cm_chunk_size = 1
    /\ cm_overlap = 0
    /\ cm_result = NoResult
    /\ \E n \in 0..MaxTotal : db = PageDb(n)
    /\ an = IdlePass
    /\ trace = <<>>
    /\ ag = IdleAgent
    /\ \E page \in (0 - MaxPage)..MaxPage, page_size \in 0..MaxPageSize :
           mp = [IdlePage EXCEPT !.pc = "ready", !.page = page, !.page_size = page_size]
    /\ gw = IdleGateway
    /\ so = NoStoreOp
    /\ pj = IdleParse
    /\ rg = IdleRegen
    /\ an2 = IdlePass
    /\ mh = NoHistory

\* the tool's else branch: read the problem's messages, render the page
CallGetProblemMessages ==
    /\ mp.pc = "ready"
    /\ LET problems == get_problems_by_chat(db, 1)
           problem_messages == get_messages_for_problem(db, problems[1].id)
       IN  mp' = [mp EXCEPT !.pc = "done", !.messages = problem_messages,
                            !.result = format_messages_page(problem_messages,
                                                            mp.page, mp.page_size)]
    /\ UNCHANGED <<chunkVars, db, an, trace, ag, gw, mh, otherVars>>

NextPage == CallGetProblemMessages

SpecPage == InitPage /\ [][NextPage]_vars

\* the number of messages linked to the problem
LinkedTotal == Cardinality(db.links)

\* ceil(total / page_size), as the least k with k * page_size >= total
CeilDiv(total, page_size) ==
    CHOOSE k \in 0..total : k * page_size >= total /\ (k - 1) * page_size < total

\* the pages that exist
PagesThatExist ==
    1..(IF LinkedTotal > 0 THEN CeilDiv(LinkedTotal, mp.page_size) ELSE 1)

\* C15 as stated: the page is never clamped: for every requested page
\* outside 1..total_pages, pages <= 0 included, the tool result is the
\* 'page does not exist' marker and no message is rendered.
C15_NoClampOutOfRangePage ==
    (mp.pc = "done" /\ LinkedTotal > 0 /\ mp.page_size > 0
        /\ mp.page \notin PagesThatExist) =>
        /\ mp.result.kind = "return"
        /\ mp.result.value.kind = "no_such_page"

\* the row id of the message at position q (1-based) in source-id order
IdAtSourcePosition(q) == LinkedTotal + 1 - q

\* C16: for total > 0 and page_size > 0 the page count is
\* ceil(total / page_size); a page in 1..total_pages renders exactly
\* messages[(page-1)*page_size : min(page*page_size, total)] of the messages
\* in source-id order; page 5 of size 10 over 12 messages gives the 'page
\* does not exist' marker stating 2 pages.
C16_PageArithmetic ==
    (mp.pc = "done" /\ LinkedTotal > 0 /\ mp.page_size > 0) =>
        LET total       == LinkedTotal
            total_pages == CeilDiv(total, mp.page_size)
            start       == (mp.page - 1) * mp.page_size
            end         == Min(mp.page * mp.page_size, total)
        IN  /\ mp.result.kind = "return"
            /\ mp.result.value.total_pages = total_pages
            /\ mp.page \in 1..total_pages =>
                  /\ mp.result.value.kind = "page"
                  /\ mp.result.value.page = mp.page
                  /\ mp.result.value.total = total
                  /\ mp.result.value.items =
                         [q \in 1..(end - start) |-> IdAtSourcePosition(start + q)]
            /\ (total = 12 /\ mp.page = 5 /\ mp.page_size = 10) =>
                  mp.result.value = [kind |-> "no_such_page", page |-> 5,
                                     total_pages |-> 2]

\* the scenario: page 5 of size 10 was asked of 12 messages
C16_Witness ==
    /\ mp.pc = "done"
    /\ LinkedTotal = 12
    /\ mp.page = 5
    /\ mp.page_size = 10
    /\ mp.result.value.kind = "no_such_page"
    /\ mp.result.value.total_pages = 2

(***************************************************************************)
(* The LLM gateway: call_llm (llm_client.py:14-69) and                     *)
(* call_llm_with_tools (query_agent.py:198-255).                           *)
(*                                                                         *)
(* What one HTTP attempt meets is an event: a transport error of some      *)
(* httpx exception class, or a response with a status and a body.          *)
(***************************************************************************)
MAX_RETRIES == 3

DEFAULT_MAX_RETRIES == 3

GatewayVariants == {"call_llm", "call_llm_with_tools"}

\* subclasses of httpx.RequestError (httpx.TimeoutException's among them)
RequestErrorClasses ==
    {"RemoteProtocolError", "ConnectError", "ReadTimeout", "ConnectTimeout", "ReadError"}

TransportError(cls) == [kind |-> "transport", cls |-> cls, status |-> 0, body |-> ""]

Response(status, body) == [kind |-> "response", cls |-> "", status |-> status, body |-> body]

AttemptEvents ==
    {TransportError(cls) : cls \in RequestErrorClasses}
        \cup {Response(400, "error"), Response(503, "error")}
        \cup {Response(200, body) : body \in {"complete", "no_choices", "not_json"}}

\* range(max_retries) / range(MAX_RETRIES)
retries_of(variant) ==
    IF variant = "call_llm" THEN DEFAULT_MAX_RETRIES ELSE MAX_RETRIES

\* the body of the try block: "ok", or the class of the exception it raises
attempt_result(variant, event) ==
    IF event.kind = "transport" THEN event.cls
    ELSE IF event.status >= 400 THEN "HTTPStatusError"
    ELSE IF event.body = "not_json" THEN "JSONDecodeError"
    ELSE IF event.body = "no_choices" /\ variant = "call_llm" THEN "KeyError"
    ELSE "ok"

\* the except clause of each function
is_caught(variant, cls) ==
    IF variant = "call_llm"
    THEN cls \in {"RemoteProtocolError", "ConnectError", "ReadTimeout", "HTTPStatusError"}
    ELSE cls = "HTTPStatusError" \/ cls \in RequestErrorClasses

\* an attempt that is never taken for the last one
is_last_attempt_never(variant, attempt) == FALSE

\* attempt == max_retries - 1 / not (attempt < MAX_RETRIES - 1)
is_last_attempt(variant, attempt) ==
    IF variant = "call_llm" THEN attempt = retries_of(variant) - 1
    ELSE ~(attempt < retries_of(variant) - 1)

\* backoff = 2**attempt
backoff(attempt) == 2 ^ attempt

gateway_done(g, outcome) == [g EXCEPT !.pc = "done", !.outcome = outcome]

\* the loop is over without a return or a raise inside it: call_llm falls
\* off its end (returns None), call_llm_with_tools raises last_error
after_attempts(g) ==
    IF g.variant = "call_llm"
    THEN gateway_done(g, [kind |-> "return", value |-> "None"])
    ELSE gateway_done(g, [kind |-> "raise",
                          error |-> attempt_result(g.variant, g.attempts[Len(g.attempts)])])

gateway_start(variant) ==
    LET g == [IdleGateway EXCEPT !.variant = variant]
    IN  IF retries_of(variant) <= 0 THEN after_attempts(g)
        ELSE [g EXCEPT !.pc = "attempting"]

\* one pass through the loop body up to its return, raise or sleep
gateway_attempt(g, event) ==
    LET r  == attempt_result(g.variant, event)
        g1 == [g EXCEPT !.attempts = Append(@, event)]
    IN  IF r = "ok" THEN gateway_done(g1, [kind |-> "return", value |-> event.body])
        ELSE IF ~is_caught(g.variant, r)
        THEN gateway_done(g1, [kind |-> "raise", error |-> r])
        ELSE IF is_last_attempt(g.variant, g.attempt)
        THEN gateway_done(g1, [kind |-> "raise", error |-> r])
        ELSE [g1 EXCEPT !.pc = "sleeping", !.sleeps = Append(@, backoff(g.attempt))]

\* asyncio.sleep returned: the next round of the loop
gateway_wake(g) ==
    IF g.attempt + 1 >= retries_of(g.variant) THEN after_attempts(g)
    ELSE [g EXCEPT !.pc = "attempting", !.attempt = @ + 1]

InitGateway ==
    /\ cm_pc = "idle"
    /\ cm_messages = <<>>
    /\ cm_chunk_size = 1
    /\ cm_overlap = 0
    /\ cm_result = NoResult
    /\ db = EmptyDb
    /\ an = IdlePass
    /\ trace = <<>>
    /\ ag = IdleAgent
    /\ mp = IdlePage
    /\ gw = IdleGateway
    /\ so = NoStoreOp
    /\ pj = IdleParse
    /\ rg = IdleRegen
    /\ an2 = IdlePass
    /\ mh = NoHistory

GatewayCall(variant) ==
    /\ gw.pc = "idle"
    /\ gw' = gateway_start(variant)
    /\ UNCHANGED <<chunkVars, db, an, trace, ag, mp, mh, otherVars>>

GatewayAttempt(event) ==
    /\ gw.pc = "attempting"
    /\ gw' = gateway_attempt(gw, event)
    /\ UNCHANGED <<chunkVars, db, an, trace, ag, mp, mh, otherVars>>

GatewayWakes ==
    /\ gw.pc = "sleeping"
    /\ gw' = gateway_wake(gw)
    /\ UNCHANGED <<chunkVars, db, an, trace, ag, mp, mh, otherVars>>

NextGateway ==
    \/ \E variant \in GatewayVariants : GatewayCall(variant)
    \/ \E event \in AttemptEvents : GatewayAttempt(event)
    \/ GatewayWakes

SpecGateway == InitGateway /\ [][NextGateway]_vars

(***************************************************************************)
(* Claims about the gateway.                                               *)
(***************************************************************************)
\* the failures both functions are documented to retry: the connection was
\* dropped, could not be made, the read timed out, the server had an error
TransientFailure(event) ==
    \/ event.kind = "transport"
          /\ event.cls \in {"RemoteProtocolError", "ConnectError", "ReadTimeout"}
    \/ event.kind = "response" /\ event.status >= 500

Succeeded(event) == event.kind = "response" /\ event.status = 200 /\ event.body = "complete"

\* the waits made so far are 1, 2, ... seconds: 2^a after attempt a
WaitsAreBackoff ==
    /\ \A i \in 1..Len(gw.sleeps) : gw.sleeps[i] = 2 ^ (i - 1)
    /\ gw.pc \in {"attempting"} => Len(gw.sleeps) = Len(gw.attempts)
    /\ gw.pc \in {"sleeping"} => Len(gw.sleeps) = Len(gw.attempts)
    /\ gw.pc = "done" => Len(gw.sleeps) = Len(gw.attempts) - 1

C17_GatewayShape ==
    /\ Len(gw.attempts) <= 3
    /\ gw.attempt = Max(Len(gw.sleeps) - (IF gw.pc = "sleeping" THEN 1 ELSE 0), 0)
    /\ WaitsAreBackoff
    \* an attempt was followed by another only if it failed
    /\ \A i \in 1..(Len(gw.attempts) - 1) : ~Succeeded(gw.attempts[i])
    /\ gw.pc = "done" =>
          LET last == gw.attempts[Len(gw.attempts)]
          IN  \* a success returns, whichever attempt it was
              /\ Succeeded(last) => gw.outcome = [kind |-> "return", value |-> "complete"]
              \* a transient failure ends the call only as the third one,
              \* and then it is what the caller gets
              /\ TransientFailure(last) =>
                    /\ Len(gw.attempts) = 3
                    /\ gw.outcome = [kind |-> "raise",
                                     error |-> attempt_result(gw.variant, last)]

\* after a transient failure that is not the third, the call waits 2^a
\* seconds; after a success or the third failure it is over at once
C17_AttemptStep ==
    (gw.pc = "attempting" /\ gw'.pc # "attempting") =>
        LET event == gw'.attempts[Len(gw'.attempts)]
        IN  /\ Len(gw'.attempts) = Len(gw.attempts) + 1
            /\ (TransientFailure(event) /\ gw.attempt < 2) =>
                  /\ gw'.pc = "sleeping"
                  /\ gw'.sleeps = Append(gw.sleeps, 2 ^ gw.attempt)
            /\ (Succeeded(event) \/ gw.attempt = 2) =>
                  /\ gw'.pc = "done"
                  /\ gw'.sleeps = gw.sleeps

\* a wait is followed by the next attempt, not by the end of the call
C17_WakeStep ==
    gw.pc = "sleeping" =>
        /\ gw'.pc = "attempting"
        /\ gw'.attempt = gw.attempt + 1
        /\ gw'.attempts = gw.attempts

\* C17: both gateway functions make at most 3 attempts per call; a
\* transient failure on attempt a (0-based), if not the last, is followed by
\* a wait of 2^a seconds and a retry; a success on any attempt returns at
\* once; when all 3 attempts fail the last failure is raised to the caller
\* with no wait after it.
C17_BoundedRetries ==
    /\ [] C17_GatewayShape
    /\ [][C17_AttemptStep]_vars
    /\ [][C17_WakeStep]_vars

\* three transient failures in a row: waits of 1 and 2 seconds, then the raise
C17_Witness ==
    /\ gw.pc = "done"
    /\ Len(gw.attempts) = 3
    /\ \A i \in 1..3 : TransientFailure(gw.attempts[i])
    /\ gw.sleeps = <<1, 2>>
    /\ gw.outcome.kind = "raise"

\* failures that no retry can mend: the provider rejects the request, or
\* the body of a 200 response is not what the function reads
NonTransientFailure(variant, event) ==
    /\ event.kind = "response"
    /\ \/ event.status = 400
       \/ event.status = 200 /\ attempt_result(variant, event) # "ok"

\* C18 as stated: a non-transient failure is not retried: the gateway
\* makes exactly one attempt and propagates the failure.
C18_NonTransientNotRetried ==
    (Len(gw.attempts) > 0 /\ NonTransientFailure(gw.variant, gw.attempts[1])) =>
        /\ gw.pc = "done"
        /\ Len(gw.attempts) = 1
        /\ gw.sleeps = <<>>
        /\ gw.outcome = [kind |-> "raise",
                         error |-> attempt_result(gw.variant, gw.attempts[1])]

\* the part of C18 that holds: a 200 response whose body cannot be read as
\* expected ends the call with its exception after that one attempt
UnreadableBodyNotRetried ==
    (Len(gw.attempts) > 0 /\ gw.attempts[1].kind = "response"
        /\ gw.attempts[1].status = 200
        /\ attempt_result(gw.variant, gw.attempts[1]) # "ok") =>
        /\ gw.pc = "done"
        /\ Len(gw.attempts) = 1
        /\ gw.outcome.kind = "raise"

(***************************************************************************)
(* Passes of analyze_and_update run one after the other on the two chats   *)
(* of a store.  mh counts the passes and remembers, per chat, every        *)
(* decision and key point that was stored at the start or came in a        *)
(* response that the pass merged.                                          *)
(***************************************************************************)
MaxPasses == 3

StoredEntries(d, field) ==
    UNION {{<<c, e>> : e \in Elems(d.chat_meta[c][field])} : c \in DOMAIN d.chat_meta}

InitMeta ==
    /\ \E n \in {2, 41}, preexisting \in BOOLEAN : db = InitialDb(n, preexisting)
    /\ an = IdlePass
    /\ trace = <<>>
    /\ ag = IdleAgent
    /\ mp = IdlePage
    /\ gw = IdleGateway
    /\ so = NoStoreOp
    /\ pj = IdleParse
    /\ rg = IdleRegen
    /\ an2 = IdlePass
    /\ mh = [passes |-> 0, decisions |-> StoredEntries(db, "decisions"),
             key_points |-> StoredEntries(db, "key_points")]
    /\ cm_pc = "idle"
    /\ cm_messages = <<>>
    /\ cm_chunk_size = 1
    /\ cm_overlap = 0
    /\ cm_result = NoResult

\* what the LLM may say about the chat as a whole: nothing, new entries, an
\* entry twice in one answer, entries the chat may already hold
MetaDeltasOfPasses ==
    {[overview_update |-> "", new_decisions |-> <<>>, new_key_points |-> <<>>],
     [overview_update |-> "o1", new_decisions |-> <<"d1">>, new_key_points |-> <<"k1">>],
     [overview_update |-> "", new_decisions |-> <<"d2", "d1", "d2">>,
      new_key_points |-> <<"k1", "k1">>],
     [overview_update |-> "", new_decisions |-> <<"d0", "d1">>, new_key_points |-> <<>>]}

ResponsesOfPasses(a) ==
    LET chunk == pass_chunks(a)[a.i + 1]
    IN  {[kind |-> "malformed"]} \cup
        {[kind |-> "json",
          result |-> [new_problems |-> np, problem_updates |-> <<>>,
                      overview_update |-> md.overview_update,
                      new_decisions |-> md.new_decisions,
                      new_key_points |-> md.new_key_points]] :
            np \in {l \in NewProblemLists(chunk) : l = <<>> \/ ~l[1].has_title},
            md \in MetaDeltasOfPasses}

\* the next pass is called, on either chat, once the one before is over
NextPassCall(chat_id, new_messages) ==
    /\ an.pc \in {"idle", "done"}
    /\ mh.passes < MaxPasses
    /\ LET a0 == [IdlePass EXCEPT !.chat_id = chat_id,
                                  !.new_messages = new_messages]
       IN  IF is_empty_input(new_messages)
           THEN /\ an' = [a0 EXCEPT !.pc = "done",
                                    !.outcome = [kind |-> "return", stats |-> ZeroStats]]
                /\ trace' = <<>>
           ELSE LET a1 == [a0 EXCEPT
                             !.existing_problems = get_problems_by_chat(db, chat_id),
                             !.meta = get_chat_meta(db, chat_id)]
                    r == enter_chunk(a1, db, <<>>)
                IN  /\ an' = r.an
                    /\ trace' = r.trace
    /\ mh' = [mh EXCEPT !.passes = @ + 1]
    /\ UNCHANGED <<db, chunkVars, ag, mp, gw, otherVars>>

\* the entries of a response, as pairs with the chat they were given for
Supplied(chat_id, entries) == {<<chat_id, e>> : e \in Elems(entries)}

\* call_llm returns; the entries of a response count as supplied when the
\* pass merged the response (it did not end in an exception on it)
PassLlmResponds ==
    /\ an.pc = "llm"
    /\ \E response \in ResponsesOfPasses(an) :
          LET r == on_llm_response(an, db, trace, response)
              merged == response.kind = "json" /\ r.an.outcome.kind # "raise"
          IN  /\ an' = r.an
              /\ db' = r.db
              /\ trace' = r.trace
              /\ mh' = IF merged
                       THEN [mh EXCEPT
                               !.decisions = @ \cup
                                   Supplied(an.chat_id, response.result.new_decisions),
                               !.key_points = @ \cup
                                   Supplied(an.chat_id, response.result.new_key_points)]
                       ELSE mh
    /\ UNCHANGED <<chunkVars, ag, mp, gw, otherVars>>

PassLlmCallFails ==
    /\ an.pc = "llm"
    /\ an' = raise_from_pass(an, "gateway")
    /\ UNCHANGED <<db, trace, chunkVars, ag, mp, gw, mh, otherVars>>

NextMeta ==
    \/ /\ an.pc \in {"idle", "done"}
       /\ mh.passes < MaxPasses
       /\ \E chat_id \in ChatIds :
             NextPassCall(chat_id, get_unprocessed_messages(db, chat_id))
    \/ PassLlmResponds
    \/ PassLlmCallFails

SpecMeta == InitMeta /\ [][NextMeta]_vars

StoredList(d, chat_id, field) == get_chat_meta(d, chat_id)[field]

NoDuplicates(list) == Cardinality(Elems(list)) = Len(list)

EverOf(chat_id, field) == {x[2] : x \in {y \in mh[field] : y[1] = chat_id}}

\* in every state, for each chat: the stored lists have no entry twice and
\* hold exactly the entries ever stored or supplied for that chat
C20_StoredIsUnionOfSupplied ==
    \A c \in ChatIds, field \in {"decisions", "key_points"} :
        /\ NoDuplicates(StoredList(db, c, field))
        /\ Elems(StoredList(db, c, field)) = EverOf(c, field)

\* a response that brings only entries the chat already holds changes
\* neither list, as a set
C20_ResupplyChangesNothing ==
    (an.pc = "llm" /\ an'.response.kind = "json") =>
        \A field \in {"decisions", "key_points"} :
            LET given == IF field = "decisions"
                         THEN an'.response.result.new_decisions
                         ELSE an'.response.result.new_key_points
            IN  Elems(given) \subseteq Elems(StoredList(db, an.chat_id, field)) =>
                    Elems(StoredList(db', an.chat_id, field)) =
                        Elems(StoredList(db, an.chat_id, field))

\* C20: after any sequence of passes run one after the other on a chat, the
\* stored decisions and key_points have no duplicate entry and contain
\* every entry ever stored or supplied; re-supplying an entry that is
\* present leaves the set unchanged.
C20_MetaIsSetUnion ==
    /\ [] C20_StoredIsUnionOfSupplied
    /\ [][C20_ResupplyChangesNothing]_vars

\* the second pass on chat 1 was given d0 and d1 again, after the first had
\* brought d2 and d1: the three are stored once each
C20_Witness ==
    /\ mh.passes = 2
    /\ an.pc = "done"
    /\ an.chat_id = 1
    /\ an.outcome.kind = "return"
    /\ an.response.kind = "json"
    /\ an.response.result.new_decisions = <<"d0", "d1">>
    /\ Elems(StoredList(db, 1, "decisions")) = {"d0", "d1", "d2"}
    /\ Len(StoredList(db, 1, "decisions")) = 3

(***************************************************************************)
(* The store operations called by the bot's handlers, database.py, taken   *)
(* in any order.  In this specification a message row carries its text     *)
(* and db.next_message_id is the next value of the AUTOINCREMENT id of     *)
(* the messages table.  so holds the last call: its name, its arguments,   *)
(* its result, the store before it (so.before), the number of calls made   *)
(* (so.n) and so.trail, the statuses one problem went through in the       *)
(* /solve commands that followed each other without another call between.  *)
(***************************************************************************)
MaxOps == 3

StoreChats == {1, 2}

StoreStatuses == {"unsolved", "partial", "solved"}

\* the message passed to save_message: bot.py:238-253
StoreMessages ==
    [chat_id : StoreChats, telegram_msg_id : {500, 502}, text : {"a", "b"}]

\* the ids a caller may pass, 9 being the id of no row
StoreProblemIds == {1, 2, 3, 9}

StoreMessageIdLists == {<<>>, <<1>>, <<2, 1>>, <<3, 3>>, <<9>>}

StoreDb ==
    [messages |-> {[id |-> 1, chat_id |-> 1, telegram_msg_id |-> 501, text |-> "a"],
                   [id |-> 2, chat_id |-> 1, telegram_msg_id |-> 502, text |-> "a"],
                   [id |-> 3, chat_id |-> 2, telegram_msg_id |-> 501, text |-> "a"]},
     next_message_id |-> 4,
     problems |-> (1 :> [id |-> 1, chat_id |-> 1, title |-> "p1",
                         short_summary |-> "s1", long_summary |-> "l1",
                         solution |-> "", status |-> "unsolved"])
                  @@ (2 :> [id |-> 2, chat_id |-> 1, title |-> "p2",
                            short_summary |-> "s2", long_summary |-> "l2",
                            solution |-> "x2", status |-> "partial"])
                  @@ (3 :> [id |-> 3, chat_id |-> 2, title |-> "p3",
                            short_summary |-> "s3", long_summary |-> "l3",
                            solution |-> "x3", status |-> "solved"]),
     next_problem_id |-> 4,
     links |-> {<<1, 1>>, <<3, 3>>},
     chat_meta |-> (1 :> [overview |-> "o1", decisions |-> <<"d1">>,
                          key_points |-> <<>>])
                   @@ (2 :> [overview |-> "o2", decisions |-> <<>>,
                             key_points |-> <<"k2">>])]

\* UPDATE problems SET status = ?, solution = '' WHERE id = ?
update_problem_status_and_solution(d, problem_id, status) ==
    [d EXCEPT !.problems =
        [id \in DOMAIN @ |->
            IF id = problem_id
            THEN [@[id] EXCEPT !.status = status, !.solution = ""]
            ELSE @[id]]]

\* database.py:340-348: UPDATE problems SET status = ? WHERE id = ?
update_problem_status(d, problem_id, status) ==
    [d EXCEPT !.problems =
        [id \in DOMAIN @ |->
            IF id = problem_id THEN [@[id] EXCEPT !.status = status] ELSE @[id]]]

\* bot.py:496-513: the status /solve gives a problem
next_status(status) ==
    IF status = "unsolved"
    THEN "partial"
    ELSE IF status = "partial" THEN "solved" ELSE "unsolved"

\* bot.py:467-513 once idx is known: the store after the command, the
\* problem it changed (0 when the index names none) and the status it set
solve_problem(d, chat_id, idx) ==
    LET problems == get_problems_by_chat(d, chat_id)
    IN  IF idx >= Len(problems) \/ idx < 0
        THEN [db |-> d, id |-> 0, status |-> "not_found"]
        ELSE LET p == problems[idx + 1]
             IN  [db |-> update_problem_status(d, p.id, next_status(p.status)),
                  id |-> p.id, status |-> next_status(p.status)]

\* INSERT OR REPLACE: the row in conflict is deleted, and its links with it
save_message_replace(d, msg) ==
    LET existing == {m \in d.messages : /\ m.chat_id = msg.chat_id
                                        /\ m.telegram_msg_id = msg.telegram_msg_id}
        gone == {m.id : m \in existing}
        new_id == d.next_message_id
    IN  [db |-> [d EXCEPT
                   !.messages = (@ \ existing) \cup
                       {[id |-> new_id, chat_id |-> msg.chat_id,
                         telegram_msg_id |-> msg.telegram_msg_id,
                         text |-> msg.text]},
                   !.links = {l \in @ : l[2] \notin gone},
                   !.next_message_id = new_id + 1],
         id |-> new_id]

\* database.py:124-154: INSERT ... ON CONFLICT(chat_id, telegram_msg_id)
\* DO UPDATE ... RETURNING id; the result is [db, id]
save_message(d, msg) ==
    LET existing == {m \in d.messages : /\ m.chat_id = msg.chat_id
                                        /\ m.telegram_msg_id = msg.telegram_msg_id}
    IN  IF existing # {}
        THEN LET row == CHOOSE m \in existing : TRUE
             IN  [db |-> [d EXCEPT !.messages =
                            (@ \ {row}) \cup {[row EXCEPT !.text = msg.text]}],
                  id |-> row.id]
        ELSE LET new_id == d.next_message_id
             IN  [db |-> [d EXCEPT
                            !.messages = @ \cup
                                {[id |-> new_id, chat_id |-> msg.chat_id,
                                  telegram_msg_id |-> msg.telegram_msg_id,
                                  text |-> msg.text]},
                            !.next_message_id = new_id + 1],
                  id |-> new_id]

\* database.py:89-97 with PRAGMA foreign_keys = ON (database.py:36): the
\* rows a link refers to exist
foreign_keys_hold(d, message_ids, problem_id) ==
    /\ problem_id \in DOMAIN d.problems
    /\ \A k \in 1..Len(message_ids) :
          \E m \in d.messages : m.id = message_ids[k]

\* the problems and the messages of a chat, by id
problem_ids_of(d, chat_id) ==
    {id \in DOMAIN d.problems : d.problems[id].chat_id = chat_id}

message_ids_of(d, chat_id) ==
    {m.id : m \in {x \in d.messages : x.chat_id = chat_id}}

\* the deletes without DELETE FROM chat_meta
clear_chat_data_keeps_meta(d, chat_id) ==
    LET pids == problem_ids_of(d, chat_id)
        mids == message_ids_of(d, chat_id)
    IN  [d EXCEPT
           !.links = {l \in @ : l[1] \notin pids /\ l[2] \notin mids},
           !.problems = [id \in DOMAIN @ \ pids |-> @[id]],
           !.messages = {m \in @ : m.chat_id # chat_id}]

\* database.py:500-515; deleting a message deletes the links to it
\* (ON DELETE CASCADE, database.py:95)
clear_chat_data(d, chat_id) ==
    LET pids == problem_ids_of(d, chat_id)
        mids == message_ids_of(d, chat_id)
    IN  [d EXCEPT
           !.links = {l \in @ : l[1] \notin pids /\ l[2] \notin mids},
           !.problems = [id \in DOMAIN @ \ pids |-> @[id]],
           !.messages = {m \in @ : m.chat_id # chat_id},
           !.chat_meta = [c \in DOMAIN @ \ {chat_id} |-> @[c]]]

InitStore ==
    /\ db = StoreDb
    /\ so = NoStoreOp
    /\ an = IdlePass
    /\ trace = <<>>
    /\ ag = IdleAgent
    /\ mp = IdlePage
    /\ gw = IdleGateway
    /\ mh = NoHistory
    /\ pj = IdleParse
    /\ rg = IdleRegen
    /\ an2 = IdlePass
    /\ cm_pc = "idle"
    /\ cm_messages = <<>>
    /\ cm_chunk_size = CHUNK_SIZE
    /\ cm_overlap = DEFAULT_OVERLAP
    /\ cm_result = NoResult

\* the record of a call that was just made
called(op, args, result, trail) ==
    [n |-> so.n + 1, op |-> op, args |-> args, result |-> result,
     before |-> db, trail |-> trail]

StoreUnchanged == UNCHANGED <<chunkVars, an, trace, ag, mp, gw, mh, pj, rg, an2>>

CallUpdateProblemStatus ==
    /\ so.n < MaxOps
    /\ \E problem_id \in StoreProblemIds, status \in StoreStatuses :
          /\ db' = update_problem_status(db, problem_id, status)
          /\ so' = called("update_problem_status",
                          [problem_id |-> problem_id, status |-> status],
                          [kind |-> "return"], NoTrail)
    /\ StoreUnchanged

\* the /solve command of the bot, with an index that names a problem of
\* the chat or none
SolveCommandWithin(limit) ==
    /\ so.n < limit
    /\ \E chat_id \in StoreChats, idx \in {0, 1, 2} :
          LET r == solve_problem(db, chat_id, idx)
              trail == IF r.id = 0
                       THEN NoTrail
                       ELSE IF so.trail.id = r.id
                            THEN [so.trail EXCEPT !.statuses = Append(@, r.status)]
                            ELSE [id |-> r.id,
                                  statuses |-> <<db.problems[r.id].status, r.status>>]
          IN  /\ db' = r.db
              /\ so' = called("solve_problem", [chat_id |-> chat_id, idx |-> idx],
                              [kind |-> "return", id |-> r.id, status |-> r.status],
                              trail)
    /\ StoreUnchanged

SolveCommand == SolveCommandWithin(MaxOps)

\* a link that refers to a missing row fails the statement, and nothing of
\* the call is committed
CallLinkMessages ==
    /\ so.n < MaxOps
    /\ \E problem_id \in StoreProblemIds, message_ids \in StoreMessageIdLists :
          LET args == [problem_id |-> problem_id, message_ids |-> message_ids]
          IN  IF foreign_keys_hold(db, message_ids, problem_id)
              THEN /\ db' = link_messages_to_problem(db, message_ids, problem_id)
                   /\ so' = called("link_messages_to_problem", args,
                                   [kind |-> "return"], NoTrail)
              ELSE /\ db' = db
                   /\ so' = called("link_messages_to_problem", args,
                                   [kind |-> "raise", error |-> "IntegrityError"],
                                   NoTrail)
    /\ StoreUnchanged

CallSaveMessage ==
    /\ so.n < MaxOps
    /\ \E msg \in StoreMessages :
          LET r == save_message(db, msg)
          IN  /\ db' = r.db
              /\ so' = called("save_message", msg,
                              [kind |-> "return", id |-> r.id], NoTrail)
    /\ StoreUnchanged

CallClearChatData ==
    /\ so.n < MaxOps
    /\ \E chat_id \in StoreChats :
          /\ db' = clear_chat_data(db, chat_id)
          /\ so' = called("clear_chat_data", [chat_id |-> chat_id],
                          [kind |-> "return"], NoTrail)
    /\ StoreUnchanged

\* the bot asks for the messages to analyze (bot.py:264)
CallGetUnprocessedMessages ==
    /\ so.n < MaxOps
    /\ \E chat_id \in StoreChats :
          so' = called("get_unprocessed_messages", [chat_id |-> chat_id],
                       [kind |-> "return",
                        value |-> get_unprocessed_messages(db, chat_id)], NoTrail)
    /\ UNCHANGED db
    /\ StoreUnchanged

NextStore ==
    \/ CallUpdateProblemStatus
    \/ SolveCommand
    \/ CallLinkMessages
    \/ CallSaveMessage
    \/ CallClearChatData
    \/ CallGetUnprocessedMessages

SpecStore == InitStore /\ [][NextStore]_vars

\* the problem row `id` of store d with its status replaced
WithStatus(d, id, status) == [d.problems[id] EXCEPT !.status = status]

\* everything of the store but the row of problem `id` is as it was before
\* the last call
OnlyProblemChanged(id) ==
    /\ DOMAIN db.problems = DOMAIN so.before.problems
    /\ \A other \in DOMAIN db.problems \ {id} :
          db.problems[other] = so.before.problems[other]
    /\ db.links = so.before.links
    /\ db.messages = so.before.messages
    /\ db.chat_meta = so.before.chat_meta

\* C21: update_problem_status(id, s) leaves the problem with status s and
\* with the title, summaries, solution, chat and links it had, so the
\* status is that of the last call; a /solve command does the same with the
\* next status of the cycle, and three /solve commands in a row on an
\* unsolved problem take it to partial, to solved and back to unsolved.
C21_StatusSetAndNothingElse ==
    /\ so.op = "update_problem_status"
          => /\ OnlyProblemChanged(so.args.problem_id)
             /\ so.args.problem_id \in DOMAIN so.before.problems
                   => db.problems[so.args.problem_id] =
                         WithStatus(so.before, so.args.problem_id, so.args.status)
             /\ so.args.problem_id \notin DOMAIN so.before.problems
                   => db = so.before
    /\ so.op = "solve_problem" /\ so.result.id # 0
          => /\ OnlyProblemChanged(so.result.id)
             /\ db.problems[so.result.id] =
                   WithStatus(so.before, so.result.id, so.result.status)
             /\ db.problems[so.result.id].status = so.trail.statuses[Len(so.trail.statuses)]
    /\ so.op = "solve_problem" /\ so.result.id = 0 => db = so.before
    /\ Len(so.trail.statuses) >= 4 /\ so.trail.statuses[1] = "unsolved"
          => SubSeq(so.trail.statuses, 2, 4) = <<"partial", "solved", "unsolved">>

C21_Witness ==
    /\ so.op = "solve_problem"
    /\ so.trail.statuses = <<"unsolved", "partial", "solved", "unsolved">>
    /\ db.problems[so.trail.id].status = "unsolved"
    /\ db.problems[so.trail.id].title = StoreDb.problems[so.trail.id].title

\* the pairs the last link_messages_to_problem call was given
PairsGiven ==
    {<<so.args.problem_id, so.args.message_ids[k]>> :
        k \in 1..Len(so.args.message_ids)}

\* the ids of the messages get_messages_for_problem returns
LinkedIds(d, problem_id) ==
    LET msgs == get_messages_for_problem(d, problem_id)
    IN  [k \in 1..Len(msgs) |-> msgs[k].id]

\* C25: a link_messages_to_problem call adds the pairs it was given that
\* were not linked yet and nothing else; given only linked pairs it leaves
\* the store, and what get_messages_for_problem returns, as they were; no
\* problem ever lists a message twice.
C25_LinkIsIdempotent ==
    /\ so.op = "link_messages_to_problem" /\ so.result.kind = "return"
          => /\ db.links = so.before.links \cup PairsGiven
             /\ [db EXCEPT !.links = so.before.links] = so.before
             /\ PairsGiven \subseteq so.before.links
                   => /\ db = so.before
                      /\ get_messages_for_problem(db, so.args.problem_id) =
                            get_messages_for_problem(so.before, so.args.problem_id)
    /\ so.op = "link_messages_to_problem" /\ so.result.kind = "raise"
          => db = so.before
    /\ \A problem_id \in DOMAIN db.problems :
          /\ \A i, j \in 1..Len(LinkedIds(db, problem_id)) :
                i # j => LinkedIds(db, problem_id)[i] # LinkedIds(db, problem_id)[j]
          /\ Len(LinkedIds(db, problem_id)) =
                Cardinality({l \in db.links : l[1] = problem_id})

\* a call that links one pair again and one pair for the first time
C25_Witness ==
    /\ so.op = "link_messages_to_problem"
    /\ so.result.kind = "return"
    /\ PairsGiven \cap so.before.links # {}
    /\ PairsGiven \ so.before.links # {}
    /\ Len(get_messages_for_problem(db, so.args.problem_id)) = 2

\* the (chat_id, telegram_msg_id) pair of a message
SourceKey(m) == <<m.chat_id, m.telegram_msg_id>>

\* the rows of store d that hold the pair of the message last saved
SavedBefore(d) == {m \in d.messages : SourceKey(m) = SourceKey(so.args)}

\* C26: no two stored messages share a (chat_id, telegram_msg_id) pair or
\* an id; save_message on a stored pair returns the id of the stored row,
\* replaces its text and keeps every other row and every link; on a new
\* pair it adds one row under an id no row has.
C26_SaveMessageUpserts ==
    /\ \A m1, m2 \in db.messages :
          SourceKey(m1) = SourceKey(m2) \/ m1.id = m2.id => m1 = m2
    /\ so.op = "save_message"
          => /\ db.links = so.before.links
             /\ db.problems = so.before.problems
             /\ db.chat_meta = so.before.chat_meta
             /\ \E m \in db.messages :
                   /\ m.id = so.result.id
                   /\ SourceKey(m) = SourceKey(so.args)
                   /\ m.text = so.args.text
                   /\ db.messages \ {m} = so.before.messages \ SavedBefore(so.before)
             /\ \A old \in SavedBefore(so.before) : old.id = so.result.id
             /\ SavedBefore(so.before) = {}
                   => \A old \in so.before.messages : old.id # so.result.id

\* a linked message is saved again with another text
C26_Witness ==
    /\ so.op = "save_message"
    /\ \E old \in SavedBefore(so.before) :
          /\ old.text # so.args.text
          /\ \E l \in db.links : l[2] = old.id /\ l[2] = so.result.id

\* the chat of a problem and of a message of store d, by id
ChatOfProblem(d, problem_id) == d.problems[problem_id].chat_id

ChatOfMessage(d, message_id) ==
    (CHOOSE m \in d.messages : m.id = message_id).chat_id

\* a link touches a chat when its problem or its message is of that chat
Touches(d, l, chat_id) ==
    \/ ChatOfProblem(d, l[1]) = chat_id
    \/ ChatOfMessage(d, l[2]) = chat_id

\* every link refers to a stored problem and a stored message
NoDanglingLinks ==
    \A l \in db.links :
        /\ l[1] \in DOMAIN db.problems
        /\ \E m \in db.messages : m.id = l[2]

\* C27: after clear_chat_data(chat_id) the store holds no problem, no
\* message and no meta record of the chat and no link to a problem or a
\* message of it, and holds every problem, message, meta record and link of
\* the other chats as it was before.
C27_ClearChatData ==
    /\ NoDanglingLinks
    /\ so.op = "clear_chat_data"
          => LET c == so.args.chat_id
                 b == so.before
             IN  /\ \A id \in DOMAIN db.problems : db.problems[id].chat_id # c
                 /\ \A m \in db.messages : m.chat_id # c
                 /\ c \notin DOMAIN db.chat_meta
                 /\ \A l \in b.links : Touches(b, l, c) => l \notin db.links
                 /\ \A id \in DOMAIN b.problems :
                       b.problems[id].chat_id # c
                          => id \in DOMAIN db.problems /\ db.problems[id] = b.problems[id]
                 /\ \A m \in b.messages : m.chat_id # c => m \in db.messages
                 /\ \A other \in DOMAIN b.chat_meta \ {c} :
                       other \in DOMAIN db.chat_meta
                          /\ db.chat_meta[other] = b.chat_meta[other]
                 /\ \A l \in b.links : ~Touches(b, l, c) => l \in db.links
                 /\ db.links \subseteq b.links
                 /\ db.messages \subseteq b.messages
                 /\ DOMAIN db.problems \subseteq DOMAIN b.problems
                 /\ DOMAIN db.chat_meta \subseteq DOMAIN b.chat_meta
                 /\ db.next_problem_id = b.next_problem_id
                 /\ db.next_message_id = b.next_message_id

\* a chat with problems, messages, links and meta is cleared next to
\* another chat that has all four, and a link from a problem of the other
\* chat to a message of the cleared chat goes with it
C27_Witness ==
    /\ so.op = "clear_chat_data"
    /\ \E id \in DOMAIN so.before.problems :
          so.before.problems[id].chat_id = so.args.chat_id
    /\ \E m \in so.before.messages : m.chat_id = so.args.chat_id
    /\ so.args.chat_id \in DOMAIN so.before.chat_meta
    /\ \E l \in so.before.links :
          /\ ChatOfProblem(so.before, l[1]) # so.args.chat_id
          /\ ChatOfMessage(so.before, l[2]) = so.args.chat_id
    /\ db.problems # <<>>
    /\ db.messages # {}
    /\ db.links # {}
    /\ db.chat_meta # <<>>

(***************************************************************************)
(* Passes of analyze_and_update on chat 1, /solve commands and calls of    *)
(* regenerate_problem_summary, in any order and interleaved at their       *)
(* awaits.  The store starts with one problem per chat and two messages    *)
(* of chat 1 to analyse, so a pass has one chunk.  The LLM answers with    *)
(* statuses of the three known values and with one that is none of them,   *)
(* and with lists of up to two updates: of a stored problem, of no id, of  *)
(* an id the store does not hold.  so holds the last operation: for a      *)
(* merge its response (so.args), the store before it and the counts it     *)
(* returned or left behind.                                                *)
(***************************************************************************)

MaxMergeOps == 2

\* summarizer.py:424-436: up to `await call_llm`
regen_start(d, problem_id) ==
    LET found == get_problem_by_id(d, problem_id)
    IN  IF found = <<>>
        THEN [pc |-> "done", problem |-> <<>>,
              outcome |-> [kind |-> "raise", error |-> "ValueError"]]
        ELSE IF get_messages_for_problem(d, problem_id) = <<>>
             THEN [pc |-> "done", problem |-> found,
                   outcome |-> [kind |-> "return", problem |-> found[1]]]
             ELSE [pc |-> "llm", problem |-> found, outcome |-> [kind |-> "none"]]

\* result.get(key, default): a key the answer does not have is "absent"
get_or(value, default) == IF value = "absent" THEN default ELSE value

\* summarizer.py:439-448: from the LLM's response to the return
regen_on_response(r, d, response) ==
    LET parsed == parse_llm_json(response)
    IN  IF parsed.kind = "raise"
        THEN [rg |-> [r EXCEPT !.pc = "done",
                               !.outcome = [kind |-> "raise",
                                            error |-> "JSONDecodeError"]],
              db |-> d]
        ELSE LET result == parsed.value
                 problem == [r.problem[1] EXCEPT
                               !.short_summary = get_or(result.short_summary, @),
                               !.long_summary = get_or(result.long_summary, @),
                               !.solution = get_or(result.solution, @),
                               !.status = get_or(result.status, @)]
             IN  [rg |-> [r EXCEPT !.pc = "done",
                                   !.outcome = [kind |-> "return",
                                                problem |-> problem]],
                  db |-> save_problem(d, problem).db]

\* a status string that is none of the three
JunkStatus == "wontfix"

RegenResponses ==
    {[kind |-> "malformed"]} \cup
    {[kind |-> "json",
      result |-> [short_summary |-> ss, long_summary |-> "absent",
                  solution |-> "absent", status |-> st]] :
        ss \in {"absent", "s9"}, st \in {"absent", "solved", JunkStatus}}

\* a new problem cites the first message of the chunk, message 501 of the
\* chat, which is in no chunk of the pass, and 999, which no message has
MergeNewProblemLists(chunk) ==
    {<<>>} \cup
    {<<[has_title |-> TRUE, title |-> "t", short_summary |-> "s",
        long_summary |-> "l", solution |-> "", status |-> st,
        message_ids |-> <<FirstCited(chunk), 501, 999>>]>> :
            st \in {"partial", JunkStatus}}

\* a good entry followed by one without "title"
MergeFailingNewProblems(chunk) ==
    <<[has_title |-> TRUE, title |-> "t", short_summary |-> "s",
       long_summary |-> "l", solution |-> "", status |-> "partial",
       message_ids |-> <<FirstCited(chunk)>>],
      [has_title |-> FALSE, title |-> "", short_summary |-> "s",
       long_summary |-> "l", solution |-> "", status |-> "solved",
       message_ids |-> <<>>]>>

\* an update of problem `id`; a key the answer does not have is 0 or ""
Update(id, new_status, solution, message_ids) ==
    [problem_id |-> id, new_status |-> new_status, solution |-> solution,
     message_ids |-> message_ids]

\* updates of problem 1 that change the status, the solution, both or
\* neither, alone and in pairs, updates of no problem (0) and of a
\* problem that is not stored (9), alone and before an update of problem 1,
\* and an update of problem 2, which is of chat 2
MergeUpdateLists(chunk) ==
    LET both == Update(1, "solved", "fix", <<LastCited(chunk)>>)
        neither == Update(1, "unsolved", "", <<>>)
        status_only == Update(1, "solved", "", <<>>)
        solution_only == Update(1, "", "fix", <<999, LastCited(chunk)>>)
        other_chat == Update(2, "partial", "fix2", <<LastCited(chunk)>>)
        junk == Update(1, JunkStatus, "", <<>>)
        no_id == Update(0, "solved", "fix", <<LastCited(chunk)>>)
        unknown == Update(9, "solved", "fix", <<LastCited(chunk)>>)
    IN  {<<>>, <<both>>, <<neither>>, <<status_only>>, <<solution_only>>, <<junk>>,
         <<no_id>>, <<unknown>>, <<other_chat>>,
         <<unknown, both>>, <<no_id, status_only>>, <<both, both>>,
         <<status_only, solution_only>>, <<both, neither>>, <<junk, unknown>>}

\* the LLM has something to say about the chat as a whole
MergeMetaDelta ==
    [overview_update |-> "o1", new_decisions |-> <<"d1">>, new_key_points |-> <<"k1">>]

\* a decodable response
JsonResponse(np, pu, md) ==
    [kind |-> "json",
     result |-> [new_problems |-> np, problem_updates |-> pu,
                 overview_update |-> md.overview_update,
                 new_decisions |-> md.new_decisions,
                 new_key_points |-> md.new_key_points]]

MergeResponses(a) ==
    LET chunk == pass_chunks(a)[a.i + 1]
    IN  {[kind |-> "malformed"],
         JsonResponse(MergeFailingNewProblems(chunk), <<>>, MergeMetaDelta)}
        \cup {JsonResponse(np, pu, MergeMetaDelta) :
                  np \in MergeNewProblemLists(chunk),
                  pu \in MergeUpdateLists(chunk)}

InitMerge ==
    /\ db = InitialDb(2, TRUE)
    /\ so = NoStoreOp
    /\ an = IdlePass
    /\ rg = IdleRegen
    /\ an2 = IdlePass
    /\ trace = <<>>
    /\ ag = IdleAgent
    /\ mp = IdlePage
    /\ gw = IdleGateway
    /\ mh = NoHistory
    /\ pj = IdleParse
    /\ cm_pc = "idle"
    /\ cm_messages = <<>>
    /\ cm_chunk_size = CHUNK_SIZE
    /\ cm_overlap = DEFAULT_OVERLAP
    /\ cm_result = NoResult

\* analyze_and_update is called on the unprocessed messages of chat 1, as
\* the bot does (summarizer.py:310-341)
MergePassCall ==
    /\ so.n < MaxMergeOps
    /\ an.pc \in {"idle", "done"}
    /\ LET new_messages == get_unprocessed_messages(db, 1)
           a0 == [IdlePass EXCEPT !.chat_id = 1, !.new_messages = new_messages]
       IN  IF is_empty_input(new_messages)
           THEN /\ an' = [a0 EXCEPT !.pc = "done",
                                    !.outcome = [kind |-> "return", stats |-> ZeroStats]]
                /\ trace' = <<>>
           ELSE LET a1 == [a0 EXCEPT
                             !.existing_problems = get_problems_by_chat(db, 1),
                             !.meta = get_chat_meta(db, 1)]
                    r == enter_chunk(a1, db, <<>>)
                IN  /\ an' = r.an
                    /\ trace' = r.trace
    /\ so' = called("analyze_and_update", [chat_id |-> 1], [kind |-> "none"], NoTrail)
    /\ UNCHANGED <<db, chunkVars, ag, mp, gw, mh, pj, rg, an2>>

\* call_llm returns and the chunk is merged (summarizer.py:341-421)
MergeLlmResponds ==
    /\ an.pc = "llm"
    /\ \E response \in MergeResponses(an) :
          LET r == on_llm_response(an, db, trace, response)
          IN  /\ an' = r.an
              /\ db' = r.db
              /\ trace' = r.trace
              /\ so' = [so EXCEPT
                          !.op = "merge", !.args = response, !.before = db,
                          !.result = [kind |-> r.an.outcome.kind,
                                      stats |-> r.an.stats,
                                      stats_before |-> an.stats,
                                      mark |-> Len(trace),
                                      chunk |-> pass_chunks(an)[an.i + 1]],
                          !.trail = NoTrail]
    /\ UNCHANGED <<chunkVars, ag, mp, gw, mh, pj, rg, an2>>

RegenCall ==
    /\ so.n < MaxMergeOps
    /\ rg.pc \in {"idle", "done"}
    /\ \E problem_id \in {1, 2, 9} :
          /\ rg' = regen_start(db, problem_id)
          /\ so' = called("regenerate_problem_summary", [problem_id |-> problem_id],
                          [kind |-> "none"], NoTrail)
    /\ UNCHANGED <<db, chunkVars, an, trace, ag, mp, gw, mh, pj, an2>>

RegenLlmResponds ==
    /\ rg.pc = "llm"
    /\ \E response \in RegenResponses :
          LET r == regen_on_response(rg, db, response)
          IN  /\ rg' = r.rg
              /\ db' = r.db
              /\ so' = [so EXCEPT !.op = "regenerated", !.args = response,
                                  !.before = db,
                                  !.result = [kind |-> r.rg.outcome.kind],
                                  !.trail = NoTrail]
    /\ UNCHANGED <<chunkVars, an, trace, ag, mp, gw, mh, pj, an2>>

\* call_llm raises after its last attempt, llm_client.py:61-62
RegenLlmCallFails ==
    /\ rg.pc = "llm"
    /\ rg' = [rg EXCEPT !.pc = "done",
                        !.outcome = [kind |-> "raise", error |-> "gateway"]]
    /\ UNCHANGED <<db, so, chunkVars, an, trace, ag, mp, gw, mh, pj, an2>>

NextMerge ==
    \/ MergePassCall
    \/ MergeLlmResponds
    \/ LlmCallFails
    \/ SolveCommandWithin(MaxMergeOps)
    \/ RegenCall
    \/ RegenLlmResponds
    \/ RegenLlmCallFails

SpecMerge == InitMerge /\ [][NextMerge]_vars

\* C22: every stored problem has one of the three statuses.
C22_StatusAlwaysKnown ==
    \A id \in DOMAIN db.problems : db.problems[id].status \in StoreStatuses

\* what the /solve command and the store add to it: a /solve command never
\* stores a status outside the three, and maps one outside them to unsolved
SolveStoresKnownStatus ==
    so.op = "solve_problem" /\ so.result.id # 0
        => /\ db.problems[so.result.id].status \in StoreStatuses
           /\ so.before.problems[so.result.id].status \notin StoreStatuses
                 => db.problems[so.result.id].status = "unsolved"

\* the last step merged a decodable response
Merged == so.op = "merge" /\ so.args.kind = "json"

\* the updates of the response that was merged last
Updates == so.args.result.problem_updates

\* the update names no problem, or one the store does not hold
Skipped(k) ==
    \/ Updates[k].problem_id = 0
    \/ Updates[k].problem_id \notin DOMAIN db.problems

\* the events of the last merge
MergeEvents == SubSeq(trace, so.result.mark + 1, Len(trace))

\* the writes of the last merge that name problem `id`
WritesOf(id) ==
    {j \in 1..Len(MergeEvents) :
        \/ MergeEvents[j].op = "save_problem" /\ MergeEvents[j].arg.id = id
        \/ MergeEvents[j].op = "link_messages_to_problem" /\ MergeEvents[j].arg = id}

\* the value an update gives for a field, "" when it gives none
Given(u, field) == IF field = "status" THEN u.new_status ELSE u.solution

\* the field of problem p as stored when update k is reached: what the
\* nearest earlier update of p gave for it, else what the store held
RECURSIVE ValueBefore(_, _, _)
ValueBefore(p, k, field) ==
    IF k = 1
    THEN so.before.problems[p][field]
    ELSE IF Updates[k - 1].problem_id = p /\ Given(Updates[k - 1], field) # ""
         THEN Given(Updates[k - 1], field)
         ELSE ValueBefore(p, k - 1, field)

\* update k gives a value for the field that differs from the stored one
Differs(k, field) ==
    /\ Given(Updates[k], field) # ""
    /\ Given(Updates[k], field) # ValueBefore(Updates[k].problem_id, k, field)

Changes(k) == ~Skipped(k) /\ (Differs(k, "status") \/ Differs(k, "solution"))

\* the messages of the chunk an update cites, as store ids
CitedBy(u) ==
    {m.id : m \in {x \in so.before.messages :
                      /\ x.chat_id = 1
                      /\ \E i \in 1..Len(u.message_ids) :
                            x.telegram_msg_id = u.message_ids[i]}}

\* C23: an update that names no problem or a problem that is not stored
\* writes nothing and is not counted, the merge does not fail on it, the
\* other updates of the response are applied and the chat meta is written.
C23_UnknownProblemSkipped ==
    Merged /\ (\E k \in 1..Len(Updates) : Skipped(k))
        => /\ so.result.kind = "return"
           /\ \A k \in 1..Len(Updates) :
                 IF Skipped(k)
                 THEN /\ WritesOf(Updates[k].problem_id) = {}
                      /\ \A l \in db.links : l[1] # Updates[k].problem_id
                 ELSE /\ db.problems[Updates[k].problem_id].status =
                            ValueBefore(Updates[k].problem_id, Len(Updates) + 1, "status")
                      /\ db.problems[Updates[k].problem_id].solution =
                            ValueBefore(Updates[k].problem_id, Len(Updates) + 1, "solution")
                      /\ \A id \in CitedBy(Updates[k]) :
                            <<Updates[k].problem_id, id>> \in db.links
           /\ so.result.stats.updated_problems - so.result.stats_before.updated_problems
                 <= Cardinality({k \in 1..Len(Updates) : ~Skipped(k)})
           /\ MergeEvents[Len(MergeEvents)].op = "save_chat_meta"
           /\ db.chat_meta[1].overview = so.args.result.overview_update
           /\ Elems(so.args.result.new_decisions) \subseteq Elems(db.chat_meta[1].decisions)

\* an update of a problem that is not stored comes before one that changes
\* a stored problem
C23_Witness ==
    /\ Merged
    /\ Len(Updates) = 2
    /\ Updates[1].problem_id = 9
    /\ ~Skipped(2)
    /\ so.before.problems[1].status = "unsolved"
    /\ db.problems[1].status = "solved"
    /\ <<1, 4>> \in db.links
    /\ so.result.stats.updated_problems = 1

\* the writes of stored problems in the last merge
UpdateWrites(ids) ==
    {j \in 1..Len(MergeEvents) :
        /\ MergeEvents[j].op = "save_problem"
        /\ ~MergeEvents[j].arg.insert
        /\ MergeEvents[j].arg.id \in ids}

\* C24: the merge writes a stored problem and adds one to updated_problems
\* once for every update whose status or solution differs from the stored
\* value, whether one of them differs or both, and not at all for an update
\* that differs in neither; a problem no update changes is left as it was.
C24_CountedOncePerChangingUpdate ==
    Merged /\ so.result.kind = "return"
        => /\ so.result.stats.updated_problems - so.result.stats_before.updated_problems
                 = Cardinality({k \in 1..Len(Updates) : Changes(k)})
           /\ \A p \in DOMAIN so.before.problems :
                 /\ Cardinality(UpdateWrites({p})) =
                       Cardinality({k \in 1..Len(Updates) :
                                       Changes(k) /\ Updates[k].problem_id = p})
                 /\ (\A k \in 1..Len(Updates) :
                        ~(Changes(k) /\ Updates[k].problem_id = p))
                       => db.problems[p] = so.before.problems[p]

\* an update that changes both the status and the solution is followed by
\* one that changes neither
C24_Witness ==
    /\ Merged
    /\ so.result.kind = "return"
    /\ Len(Updates) = 2
    /\ ~Skipped(1) /\ ~Skipped(2)
    /\ Differs(1, "status") /\ Differs(1, "solution")
    /\ ~Changes(2)
    /\ so.result.stats.updated_problems = 1
    /\ Cardinality(UpdateWrites(DOMAIN db.problems)) = 1

(***************************************************************************)
(* Runs of the agent in which the gateway asks, in the first rounds, for   *)
(* tool calls whose arguments do not decode or name problems the chat      *)
(* does not have.  Chat 1 has one problem, so index 0 is the only valid    *)
(* one.                                                                    *)
(***************************************************************************)
MaxToolRounds == 2

\* a tool call whose arguments are not JSON
BadToolCall(id, name) == [id |-> id, name |-> name, decodable |-> FALSE, args |-> <<>>]

ToolsCallLists ==
    {<<BadToolCall("call_1", "get_problems_details")>>,
     <<BadToolCall("call_1", "get_problem_messages"),
       ToolCall("call_2", "get_problems_details", [problem_indices |-> <<0>>])>>,
     <<BadToolCall("call_1", "search_web")>>,
     <<ToolCall("call_1", "get_problems_details", [problem_indices |-> <<5, 0, -1>>])>>,
     <<ToolCall("call_1", "get_problems_details", [problem_indices |-> <<1>>]),
       ToolCall("call_2", "get_problem_messages", [problem_index |-> 0])>>,
     <<ToolCall("call_1", "get_problem_messages", [problem_index |-> 1, page |-> 1]),
       ToolCall("call_2", "get_problem_messages", [problem_index |-> -1])>>}

ToolsResponses(a) ==
    {[content |-> "answer", tool_calls |-> <<>>]}
        \cup (IF a.iteration < MaxToolRounds
              THEN {[content |-> "", tool_calls |-> tc] : tc \in ToolsCallLists}
              ELSE {})

InitTools ==
    /\ db = InitialDb(2, TRUE)
    /\ ag = IdleAgent
    /\ an = IdlePass
    /\ trace = <<>>
    /\ mp = IdlePage
    /\ gw = IdleGateway
    /\ so = NoStoreOp
    /\ pj = IdleParse
    /\ rg = IdleRegen
    /\ an2 = IdlePass
    /\ mh = NoHistory
    /\ cm_pc = "idle"
    /\ cm_messages = <<>>
    /\ cm_chunk_size = CHUNK_SIZE
    /\ cm_overlap = DEFAULT_OVERLAP
    /\ cm_result = NoResult

\* call_llm_with_tools returns: query_agent.py:310-327
ToolsGatewayResponds ==
    /\ ag.pc = "llm"
    /\ \E response \in ToolsResponses(ag), raises \in BOOLEAN :
           ag' = agent_on_response(ag, response, raises)
    /\ UNCHANGED <<chunkVars, db, an, trace, mp, gw, mh, otherVars>>

NextTools ==
    \/ \E on_status \in Callbacks : AgentCall(1, on_status)
    \/ ToolsGatewayResponds
    \/ GatewayFails
    \/ ToolStep

SpecTools == InitTools /\ [][NextTools]_vars

\* the tool call the agent is about to run
CurrentCall == ag.tool_calls[ag.k]

\* the tool result the step appended for the call, one message and no more
AppendedResult(content) ==
    /\ Len(ag'.messages) = Len(ag.messages) + 1
    /\ SubSeq(ag'.messages, 1, Len(ag.messages)) = ag.messages
    /\ ag'.messages[Len(ag'.messages)] = tool_message(CurrentCall, content)

\* the run goes on: to the next tool call of the response or to the next
\* gateway call
GoesOn ==
    /\ ag'.outcome.kind = "none"
    /\ IF ag.k < Len(ag.tool_calls)
       THEN ag'.pc = "tool" /\ ag'.k = ag.k + 1
       ELSE ag'.pc = "llm" /\ ag'.iteration = ag.iteration + 1

\* what each tool gives for empty arguments: no details, the first page of
\* the first problem's messages, the unknown-tool text
ResultOfEmptyArgs(name) ==
    IF name = "get_problems_details"
    THEN <<>>
    ELSE IF name = "get_problem_messages"
    THEN format_messages_page(get_messages_for_problem(db, ag.problems[1].id),
                              1, DEFAULT_PAGE_SIZE).value
    ELSE [kind |-> "unknown_tool", name |-> name]

UndecodableHandled ==
    /\ AppendedResult(ResultOfEmptyArgs(CurrentCall.name))
    /\ GoesOn

\* C28: a tool call whose arguments do not decode is run with empty
\* arguments: the step appends one tool result for it, the one the tool
\* gives for empty arguments, and the run goes on.
C28_UndecodableArgsRunEmpty ==
    [][ag.pc = "tool" /\ ~CurrentCall.decodable => UndecodableHandled]_vars

\* the same whenever the status callback does not raise in the step
UndecodableRunEmptyUnlessStatusFails ==
    [][ag.pc = "tool" /\ ~CurrentCall.decodable
          /\ ag'.status_failures = ag.status_failures
       => UndecodableHandled]_vars

\* the indices a get_problems_details call names
IndicesOf(tool_call) == PyGet(tool_call.args, "problem_indices", <<>>)

OutOfRange(idx) == idx < 0 \/ idx >= Len(ag.problems)

\* the call names a problem index the chat does not have
NamesMissingProblem(tool_call) ==
    /\ tool_call.decodable
    /\ \/ /\ tool_call.name = "get_problems_details"
          /\ \E j \in 1..Len(IndicesOf(tool_call)) : OutOfRange(IndicesOf(tool_call)[j])
       \/ /\ tool_call.name = "get_problem_messages"
          /\ OutOfRange(PyGet(tool_call.args, "problem_index", 0))

\* the details text has a marker at each missing index and the problem at
\* each valid one, in the order asked
DetailsWithMarkers(content, indices) ==
    /\ Len(content) = Len(indices)
    /\ \A j \in 1..Len(indices) :
          IF OutOfRange(indices[j])
          THEN content[j] = [kind |-> "problem_not_found", index |-> indices[j]]
          ELSE /\ content[j].kind = "problem"
               /\ content[j].index = indices[j]
               /\ content[j].title = ag.problems[indices[j] + 1].title

MissingProblemHandled ==
    /\ ag'.outcome.kind # "raise"
    /\ ag'.message_reads = ag.message_reads
    /\ Len(ag'.messages) = Len(ag.messages) + 1
    /\ LET content == ag'.messages[Len(ag'.messages)].content
       IN  IF CurrentCall.name = "get_problems_details"
           THEN DetailsWithMarkers(content, IndicesOf(CurrentCall))
           ELSE content = [kind |-> "problem_not_found",
                           index |-> CurrentCall.args.problem_index]

\* C29: a tool call that names a problem index outside 0..len(problems)-1
\* does not raise and does not read the messages of any problem; its result
\* has the not-found marker for that index, next to the details of the
\* valid indices of the same call.
C29_MissingProblemIsMarker ==
    [][ag.pc = "tool" /\ NamesMissingProblem(CurrentCall) => MissingProblemHandled]_vars

\* the same whenever the status callback does not raise in the step, and
\* for get_problem_messages whatever the callback does
MissingProblemIsMarkerUnlessStatusFails ==
    [][ag.pc = "tool" /\ NamesMissingProblem(CurrentCall)
          /\ (ag'.status_failures = ag.status_failures
                 \/ CurrentCall.name = "get_problem_messages")
       => MissingProblemHandled]_vars

(***************************************************************************)
(* parse_llm_json on texts, summarizer.py:283-292.  A text is a sequence   *)
(* of characters.  The payloads are the texts of up to MaxPayload          *)
(* characters over "[", "]", "1", "," and the line feed; json_loads reads  *)
(* the JSON values these characters can write: numbers of the digit 1 and  *)
(* arrays, with whitespace between the tokens.  The value of a text is the *)
(* text without its whitespace.  "j" stands for the info string after an   *)
(* opening fence.                                                          *)
(***************************************************************************)
MaxPayload == 4

LF == "\n"

PayloadChars == {"[", "]", "1", ",", LF}

Whitespace == {" ", LF}

\* the backquote character
Backquote == "backquote"

Fence == <<Backquote, Backquote, Backquote>>

\* str.lstrip() and str.rstrip()
RECURSIVE lstrip(_)
lstrip(s) == IF s # <<>> /\ s[1] \in Whitespace THEN lstrip(Tail(s)) ELSE s

RECURSIVE rstrip(_)
rstrip(s) ==
    IF s # <<>> /\ s[Len(s)] \in Whitespace
    THEN rstrip(SubSeq(s, 1, Len(s) - 1))
    ELSE s

\* str.strip()
strip(s) == rstrip(lstrip(s))

\* str.startswith(prefix)
startswith(s, prefix) ==
    Len(s) >= Len(prefix) /\ SubSeq(s, 1, Len(prefix)) = prefix

\* str.split("\n"): the lines of s, one more than its line feeds
RECURSIVE split_lines(_)
split_lines(s) ==
    IF \A i \in 1..Len(s) : s[i] # LF
    THEN <<s>>
    ELSE LET i == CHOOSE k \in 1..Len(s) :
                     s[k] = LF /\ \A j \in 1..(k - 1) : s[j] # LF
         IN  <<SubSeq(s, 1, i - 1)>> \o split_lines(SubSeq(s, i + 1, Len(s)))

\* "\n".join(lines)
RECURSIVE join_lines(_)
join_lines(lines) ==
    IF lines = <<>>
    THEN <<>>
    ELSE IF Len(lines) = 1
    THEN lines[1]
    ELSE lines[1] \o <<LF>> \o join_lines(Tail(lines))

\* the first position from i on that holds no whitespace
RECURSIVE skip_ws(_, _)
skip_ws(s, i) ==
    IF i <= Len(s) /\ s[i] \in Whitespace THEN skip_ws(s, i + 1) ELSE i

\* the position after the digits that start at i
RECURSIVE skip_digits(_, _)
skip_digits(s, i) ==
    IF i <= Len(s) /\ s[i] = "1" THEN skip_digits(s, i + 1) ELSE i

\* the JSON decoder on a value that starts at position i: the position
\* after the value, 0 when there is no value there
RECURSIVE scan_value(_, _)
RECURSIVE scan_elements(_, _)
scan_value(s, i) ==
    IF i > Len(s)
    THEN 0
    ELSE IF s[i] = "1"
    THEN skip_digits(s, i)
    ELSE IF s[i] = "["
    THEN LET j == skip_ws(s, i + 1)
         IN  IF j <= Len(s) /\ s[j] = "]" THEN j + 1 ELSE scan_elements(s, j)
    ELSE 0

\* the elements of an array from position i up to its closing bracket
scan_elements(s, i) ==
    LET e == scan_value(s, i)
        j == skip_ws(s, e)
    IN  IF e = 0 \/ j > Len(s)
        THEN 0
        ELSE IF s[j] = "]"
        THEN j + 1
        ELSE IF s[j] = ","
        THEN scan_elements(s, skip_ws(s, j + 1))
        ELSE 0

\* json.loads: the value of the text, or JSONDecodeError
json_loads(s) ==
    LET e == scan_value(s, skip_ws(s, 1))
    IN  IF e = 0 \/ skip_ws(s, e) <= Len(s)
        THEN [kind |-> "raise", error |-> "JSONDecodeError"]
        ELSE [kind |-> "return",
              value |-> SelectSeq(s, LAMBDA ch : ch \notin Whitespace)]

\* the last line is kept whatever it is
drop_closing_fence_never(lines) == lines

\* summarizer.py:289-290
drop_closing_fence(lines) ==
    IF lines # <<>> /\ strip(lines[Len(lines)]) = Fence
    THEN SubSeq(lines, 1, Len(lines) - 1)
    ELSE lines

\* summarizer.py:283-292 on a text
parse_llm_json_text(response) ==
    LET stripped == strip(response)
    IN  IF startswith(stripped, Fence)
        THEN json_loads(join_lines(drop_closing_fence(Tail(split_lines(stripped)))))
        ELSE json_loads(stripped)

\* the texts of up to n payload characters
RECURSIVE Texts(_)
Texts(n) ==
    IF n = 0
    THEN {<<>>}
    ELSE Texts(n - 1) \cup
         {Append(t, ch) : t \in {x \in Texts(n - 1) : Len(x) = n - 1},
                          ch \in PayloadChars}

\* the ways the LLM may present a payload: as it is; in a fenced block
\* with or without an info string, with whitespace around the block, with
\* an indented closing fence; in a block that lost its closing fence; in
\* fences on the line of the payload; with text after the block
FullFences == {"fence", "fence_json", "fence_padded", "fence_indented"}

Wraps == {"none", "open_only", "inline", "trailing_text"} \cup FullFences

Wrap(kind, p) ==
    IF kind = "none" THEN p
    ELSE IF kind = "fence" THEN Fence \o <<LF>> \o p \o <<LF>> \o Fence
    ELSE IF kind = "fence_json" THEN Fence \o <<"j", LF>> \o p \o <<LF>> \o Fence
    ELSE IF kind = "fence_padded"
    THEN <<LF, " ">> \o Fence \o <<LF>> \o p \o <<LF>> \o Fence \o <<" ", LF>>
    ELSE IF kind = "fence_indented"
    THEN Fence \o <<LF>> \o p \o <<LF, " ">> \o Fence
    ELSE IF kind = "open_only" THEN Fence \o <<"j", LF>> \o p
    ELSE IF kind = "inline" THEN Fence \o p \o Fence
    ELSE Fence \o <<LF>> \o p \o <<LF>> \o Fence \o <<LF, "j">>

InitParse ==
    /\ pj = IdleParse
    /\ db = EmptyDb
    /\ so = NoStoreOp
    /\ an = IdlePass
    /\ rg = IdleRegen
    /\ an2 = IdlePass
    /\ trace = <<>>
    /\ ag = IdleAgent
    /\ mp = IdlePage
    /\ gw = IdleGateway
    /\ mh = NoHistory
    /\ cm_pc = "idle"
    /\ cm_messages = <<>>
    /\ cm_chunk_size = CHUNK_SIZE
    /\ cm_overlap = DEFAULT_OVERLAP
    /\ cm_result = NoResult

\* parse_llm_json is called on a payload as the LLM presented it
CallParseLlmJson ==
    /\ pj.pc = "idle"
    /\ \E payload \in Texts(MaxPayload), wrap \in Wraps :
          pj' = [pc |-> "done", payload |-> payload, wrap |-> wrap,
                 response |-> Wrap(wrap, payload),
                 result |-> parse_llm_json_text(Wrap(wrap, payload))]
    /\ UNCHANGED <<chunkVars, db, an, trace, ag, mp, gw, mh, so, rg, an2>>

NextParse == CallParseLlmJson

SpecParse == InitParse /\ [][NextParse]_vars

\* how often a character occurs in a text
Count(s, ch) == Cardinality({i \in 1..Len(s) : s[i] = ch})

\* a payload that was cut inside an array
Truncated(p) == Count(p, "[") > Count(p, "]")

\* a payload that is no JSON value: nothing but whitespace, brackets that
\* do not match, a comma or a closing bracket at the start, a comma or an
\* opening bracket at the end, a comma outside every array
Invalid(p) ==
    \/ strip(p) = <<>>
    \/ Count(p, "[") # Count(p, "]")
    \/ strip(p)[1] \in {",", "]"}
    \/ strip(p)[Len(strip(p))] \in {",", "["}
    \/ Count(p, "[") = 0 /\ Count(p, ",") > 0

\* C30: for a payload in a fenced block, with an opening fence line and a
\* closing fence line, parse_llm_json gives what it gives for the payload
\* alone, the same value or the same error; and it raises on a payload
\* that is cut or is no JSON value, fenced or not.
C30_FencedParsesAsUnfenced ==
    pj.pc = "done" /\ pj.wrap \in FullFences \cup {"none"}
        => /\ pj.result = parse_llm_json_text(pj.payload)
           /\ pj.result = json_loads(pj.payload)
           /\ Truncated(pj.payload) \/ Invalid(pj.payload)
                 => pj.result.kind = "raise"

\* a two-line array in a block with an info string
C30_Witness ==
    /\ pj.pc = "done"
    /\ pj.wrap = "fence_json"
    /\ pj.payload = <<"[", LF, "1", "]">>
    /\ pj.result = [kind |-> "return", value |-> <<"[", "1", "]">>]

\* the prompt of the LLM call the pass is waiting for
CurrentPrompt == trace[Len(trace)].arg

\* C31: the problem context of every chunk's prompt shows each problem
\* with the status the store holds for it when the prompt is rendered.
C31_ContextShowsStoredStatus ==
    an.pc = "llm" /\ trace # <<>> /\ trace[Len(trace)].op = "call_llm"
        => \A k \in 1..Len(CurrentPrompt.problems_context) :
              LET entry == CurrentPrompt.problems_context[k]
              IN  /\ entry.problem_id \in DOMAIN db.problems
                  /\ entry.status = status_label(db.problems[entry.problem_id].status)

\* what does hold: the context lists the problems of the in-memory list,
\* all of them stored, and the first chunk's context shows stored statuses
ContextOfFirstChunkIsCurrent ==
    an.pc = "llm" /\ trace # <<>> /\ trace[Len(trace)].op = "call_llm"
        => \A k \in 1..Len(CurrentPrompt.problems_context) :
              LET entry == CurrentPrompt.problems_context[k]
              IN  /\ entry.problem_id \in DOMAIN db.problems
                  /\ an.i = 0
                        => entry.status =
                              status_label(db.problems[entry.problem_id].status)

\* C32: a merge that ends in an error leaves the store as it was before
\* the merge.
C32_FailedMergeWritesNothing ==
    Merged /\ so.result.kind = "raise" => db = so.before

\* what does hold: the failed merge keeps every row and link the store
\* had, writes no chat meta, and what it added before the error stays
FailedMergeKeepsEarlierWrites ==
    Merged /\ so.result.kind = "raise"
        => /\ db.chat_meta = so.before.chat_meta
           /\ db.messages = so.before.messages
           /\ so.before.links \subseteq db.links
           /\ \A id \in DOMAIN so.before.problems :
                 id \in DOMAIN db.problems /\ db.problems[id] = so.before.problems[id]
           /\ \A j \in 1..Len(MergeEvents) :
                 MergeEvents[j].op = "save_problem"
                    => MergeEvents[j].arg.id \in DOMAIN db.problems

\* the chunk of the merge: store ids, and store ids of the messages among
\* the source ids a response entry cites
ChunkIds == {so.result.chunk[k].id : k \in 1..Len(so.result.chunk)}

ChunkIdsCited(message_ids) ==
    {so.result.chunk[k].id :
        k \in {i \in 1..Len(so.result.chunk) :
                  \E j \in 1..Len(message_ids) :
                      so.result.chunk[i].telegram_msg_id = message_ids[j]}}

\* the entry cites a source id that no message of the chunk has
CitesOutsideChunk(message_ids) ==
    \E j \in 1..Len(message_ids) :
        \A k \in 1..Len(so.result.chunk) :
            so.result.chunk[k].telegram_msg_id # message_ids[j]

NewProblems == so.args.result.new_problems

\* the messages linked to a problem in store d
LinkedTo(d, problem_id) == {l[2] : l \in {x \in d.links : x[1] = problem_id}}

\* C33: a merge links only messages of its chunk; a cited id that is no
\* source id of the chunk is dropped, the merge does not fail on it, the
\* new problem is created and linked to the cited messages of the chunk,
\* and the update is applied and its cited messages of the chunk linked.
C33_OnlyChunkMessagesLinked ==
    Merged
        => /\ \A l \in db.links \ so.before.links : l[2] \in ChunkIds
           /\ (\A j \in 1..Len(NewProblems) : NewProblems[j].has_title)
                 => /\ so.result.kind = "return"
                    /\ \A j \in 1..Len(NewProblems) :
                          LET id == so.before.next_problem_id + j - 1
                          IN  /\ id \in DOMAIN db.problems
                              /\ db.problems[id].title = NewProblems[j].title
                              /\ LinkedTo(db, id) =
                                    ChunkIdsCited(NewProblems[j].message_ids)
                    /\ \A k \in 1..Len(Updates) :
                          ~Skipped(k)
                             => /\ ChunkIdsCited(Updates[k].message_ids)
                                      \subseteq LinkedTo(db, Updates[k].problem_id)
                                /\ Updates[k].solution # ""
                                      => db.problems[Updates[k].problem_id].solution =
                                            ValueBefore(Updates[k].problem_id,
                                                        Len(Updates) + 1, "solution")

\* a new problem and an update both cite ids that are not of the chunk:
\* the problem is there, linked to the one chunk message it cites, and
\* the update is applied
C33_Witness ==
    /\ Merged
    /\ so.result.kind = "return"
    /\ Len(NewProblems) = 1
    /\ CitesOutsideChunk(NewProblems[1].message_ids)
    /\ Cardinality(LinkedTo(db, so.before.next_problem_id)) = 1
    /\ Len(Updates) = 1
    /\ ~Skipped(1)
    /\ CitesOutsideChunk(Updates[1].message_ids)
    /\ so.before.problems[1].solution = ""
    /\ db.problems[1].solution = "fix"
    /\ \E m \in so.before.messages :
          /\ m.chat_id = 1
          /\ m.telegram_msg_id = 501
          /\ m.id \notin LinkedTo(db, so.before.next_problem_id)

\* C36: a merge of a pass on chat 1 leaves every problem of another chat
\* with the row and the links it had.
C36_OtherChatsProblemsUntouched ==
    Merged
        => \A id \in DOMAIN so.before.problems :
              so.before.problems[id].chat_id # 1
                 => /\ db.problems[id] = so.before.problems[id]
                    /\ LinkedTo(db, id) = LinkedTo(so.before, id)

\* what does hold: a merge touches no stored problem but those its
\* updates name by id, and never moves a problem to another chat
OnlyNamedProblemsTouched ==
    Merged
        => \A id \in DOMAIN so.before.problems :
              /\ db.problems[id].chat_id = so.before.problems[id].chat_id
              /\ (\A k \in 1..Len(Updates) : Updates[k].problem_id # id)
                    => /\ db.problems[id] = so.before.problems[id]
                       /\ LinkedTo(db, id) = LinkedTo(so.before, id)

\* the updates of the last merge that name problem `id`
UpdatesOf(id) == {k \in 1..Len(Updates) : Updates[k].problem_id = id}

\* C38: the updates of a merge leave the title and both summaries of every
\* stored problem as they were and never empty a solution: a problem whose
\* updates give no solution text keeps the text it had, and a problem that
\* had a solution still has one.
C38_UpdateKeepsTextAndSolution ==
    Merged
        => \A id \in DOMAIN so.before.problems :
              LET old == so.before.problems[id]
                  new == db.problems[id]
              IN  /\ new.title = old.title
                  /\ new.short_summary = old.short_summary
                  /\ new.long_summary = old.long_summary
                  /\ old.solution # "" => new.solution # ""
                  /\ (\A k \in UpdatesOf(id) : Updates[k].solution = "")
                        => new.solution = old.solution

\* a solved problem with a solution was set back to unsolved by an update
\* without solution text
C38_Witness ==
    /\ Merged
    /\ so.result.kind = "return"
    /\ so.before.problems[1].status = "solved"
    /\ so.before.problems[1].solution = "fix"
    /\ \E k \in UpdatesOf(1) :
          Updates[k].new_status = "unsolved" /\ Updates[k].solution = ""
    /\ db.problems[1].status = "unsolved"
    /\ db.problems[1].solution = "fix"

\* the messages of the merged chunk that no entry of the response cites
UncitedOfChunk ==
    {so.result.chunk[k] :
        k \in {i \in 1..Len(so.result.chunk) :
                  /\ \A j \in 1..Len(NewProblems) :
                        so.result.chunk[i].id \notin ChunkIdsCited(NewProblems[j].message_ids)
                  /\ \A j \in 1..Len(Updates) :
                        so.result.chunk[i].id \notin ChunkIdsCited(Updates[j].message_ids)}}

\* the elements of a list
Elements(list) == {list[k] : k \in 1..Len(list)}

\* a pass on chat 1 returned after merging its chunk
PassReturned == Merged /\ so.result.kind = "return"

\* after a pass that returned, the messages of its chunk that the response
\* cites nowhere are unprocessed, and the merge changed no message
UncitedStayUnprocessed ==
    PassReturned
        => /\ UncitedOfChunk \subseteq Elements(get_unprocessed_messages(db, 1))
           /\ db.messages = so.before.messages

\* the pass that follows is given them again
UncitedSubmittedAgain ==
    (PassReturned /\ so'.op = "analyze_and_update")
        => UncitedOfChunk \subseteq Elements(an'.new_messages)

\* C35: a message of a pass that returned which no entry of the response
\* cites is unprocessed after the pass and is among the messages of the
\* next pass; the merge leaves the messages themselves as they were, so
\* only a link takes a message out of the unprocessed ones.
C35_UncitedMessageComesBack ==
    /\ []UncitedStayUnprocessed
    /\ [][UncitedSubmittedAgain]_vars

\* a second pass was started on a message that the first pass, which linked
\* another message of its chunk, left uncited
C35_Witness ==
    /\ so.op = "analyze_and_update"
    /\ so.n = 2
    /\ an.pc = "llm"
    /\ Len(an.new_messages) = 1
    /\ db.links # InitialDb(2, TRUE).links
    /\ so.before.links = db.links

\* the store ids of the messages of a chat that no link names
UnlinkedIds(d, chat_id) ==
    {m.id : m \in {x \in d.messages :
                      x.chat_id = chat_id /\ \A l \in d.links : l[2] # x.id}}

\* the list is in ascending order of source id, without repetition
AscendingBySourceId(list) ==
    \A i, j \in 1..Len(list) :
        i < j => list[i].telegram_msg_id < list[j].telegram_msg_id

\* the answer of get_unprocessed_messages is the unlinked messages of the
\* chat, each once, by ascending source id
UnprocessedAreTheUnlinked ==
    so.op = "get_unprocessed_messages"
        => LET list == so.result.value
           IN  /\ Elements(list) = {m \in db.messages :
                                       m.id \in UnlinkedIds(db, so.args.chat_id)}
               /\ AscendingBySourceId(list)

\* the store ids of a list of messages
IdsOf(list) == {list[k].id : k \in 1..Len(list)}

\* a stored message that was unprocessed and no longer is has a link
LeavesOnlyWhenLinked ==
    \A chat_id \in StoreChats :
        \A id \in IdsOf(get_unprocessed_messages(db, chat_id)) :
            (/\ \E m \in db'.messages : m.id = id /\ m.chat_id = chat_id
             /\ id \notin IdsOf(get_unprocessed_messages(db', chat_id)))
                => \E l \in db'.links : l[2] = id

\* C34: get_unprocessed_messages(chat_id) is the messages of the chat with
\* no link to any problem, in ascending order of source id, and a stored
\* message leaves the unprocessed ones only by being linked.
C34_UnprocessedMeansUnlinked ==
    /\ []UnprocessedAreTheUnlinked
    /\ [][LeavesOnlyWhenLinked]_vars

\* two unlinked messages come back in source order, which is not the order
\* of their store ids, while the chat has a linked message and the other
\* chat an unlinked one
C34_Witness ==
    /\ so.op = "get_unprocessed_messages"
    /\ Len(so.result.value) = 2
    /\ so.result.value[1].id > so.result.value[2].id
    /\ \E m \in db.messages :
          m.chat_id = so.args.chat_id /\ \E l \in db.links : l[2] = m.id
    /\ \E m \in db.messages :
          m.chat_id # so.args.chat_id /\ \A l \in db.links : l[2] # m.id

(***************************************************************************)
(* Specification SpecRace: two passes of analyze_and_update on chat 1      *)
(* whose steps interleave at their LLM calls.  Each is started by a        *)
(* /summarize command on the unprocessed messages of the chat at that      *)
(* moment; `an` is the first coroutine, `an2` the second.                  *)
(***************************************************************************)
MaxRaceCalls == 3

\* what the LLM says about the chat as a whole: nothing, or one of two
\* different sets of entries
RaceMetaDeltas ==
    {[overview_update |-> "", new_decisions |-> <<>>, new_key_points |-> <<>>],
     [overview_update |-> "oA", new_decisions |-> <<"dA">>, new_key_points |-> <<"kA">>],
     [overview_update |-> "oB", new_decisions |-> <<"dB">>, new_key_points |-> <<"kB">>]}

RaceResponses(a) ==
    LET chunk == pass_chunks(a)[a.i + 1]
    IN  {[kind |-> "malformed"]}
        \cup {JsonResponse(np, <<>>, md) :
                  np \in {<<>>, <<[has_title |-> TRUE, title |-> "t",
                                   short_summary |-> "s", long_summary |-> "l",
                                   solution |-> "", status |-> "partial",
                                   message_ids |-> <<FirstCited(chunk)>>]>>},
                  md \in RaceMetaDeltas}

\* bot.py:264-285 and summarizer.py:310-341: the command reads the
\* unprocessed messages and the pass runs to its first LLM call
start_pass(d, t) ==
    LET new_messages == get_unprocessed_messages(d, 1)
        a0 == [IdlePass EXCEPT !.chat_id = 1, !.new_messages = new_messages]
    IN  IF is_empty_input(new_messages)
        THEN [an |-> [a0 EXCEPT !.pc = "done",
                                !.outcome = [kind |-> "return", stats |-> ZeroStats]],
              trace |-> t]
        ELSE enter_chunk([a0 EXCEPT
                            !.existing_problems = get_problems_by_chat(d, 1),
                            !.meta = get_chat_meta(d, 1)],
                         d, t)

InitRace ==
    /\ db = InitialDb(2, TRUE)
    /\ so = NoStoreOp
    /\ an = IdlePass
    /\ an2 = IdlePass
    /\ rg = IdleRegen
    /\ trace = <<>>
    /\ ag = IdleAgent
    /\ mp = IdlePage
    /\ gw = IdleGateway
    /\ mh = NoHistory
    /\ pj = IdleParse
    /\ cm_pc = "idle"
    /\ cm_messages = <<>>
    /\ cm_chunk_size = CHUNK_SIZE
    /\ cm_overlap = DEFAULT_OVERLAP
    /\ cm_result = NoResult

RaceUnchanged == UNCHANGED <<chunkVars, ag, mp, gw, mh, pj, rg>>

FirstPassCall ==
    /\ so.n < MaxRaceCalls
    /\ an.pc \in {"idle", "done"}
    /\ an' = start_pass(db, trace).an
    /\ trace' = start_pass(db, trace).trace
    /\ so' = called("analyze_and_update", [chat_id |-> 1, task |-> 1],
                    [kind |-> "none"], NoTrail)
    /\ UNCHANGED <<db, an2>>
    /\ RaceUnchanged

SecondPassCall ==
    /\ so.n < MaxRaceCalls
    /\ an2.pc \in {"idle", "done"}
    /\ an2' = start_pass(db, trace).an
    /\ trace' = start_pass(db, trace).trace
    /\ so' = called("analyze_and_update", [chat_id |-> 1, task |-> 2],
                    [kind |-> "none"], NoTrail)
    /\ UNCHANGED <<db, an>>
    /\ RaceUnchanged

\* call_llm returns to the first pass, which merges its chunk
FirstLlmResponds ==
    /\ an.pc = "llm"
    /\ \E response \in RaceResponses(an) :
          LET r == on_llm_response(an, db, trace, response)
          IN  /\ an' = r.an
              /\ db' = r.db
              /\ trace' = r.trace
    /\ UNCHANGED <<so, an2>>
    /\ RaceUnchanged

\* call_llm returns to the second pass, which merges its chunk
SecondLlmResponds ==
    /\ an2.pc = "llm"
    /\ \E response \in RaceResponses(an2) :
          LET r == on_llm_response(an2, db, trace, response)
          IN  /\ an2' = r.an
              /\ db' = r.db
              /\ trace' = r.trace
    /\ UNCHANGED <<so, an>>
    /\ RaceUnchanged

NextRace ==
    \/ FirstPassCall
    \/ SecondPassCall
    \/ FirstLlmResponds
    \/ SecondLlmResponds

SpecRace == InitRace /\ [][NextRace]_vars

\* the decisions and key points stored for a chat in store d
StoredDecisions(d, chat_id) == Elems(get_chat_meta(d, chat_id).decisions)

StoredKeyPoints(d, chat_id) == Elems(get_chat_meta(d, chat_id).key_points)

\* C37: whatever the interleaving of the two passes, no step removes a
\* decision or a key point from what is stored for the chat.
C37_StoredEntriesOnlyGrow ==
    [][/\ StoredDecisions(db, 1) \subseteq StoredDecisions(db', 1)
       /\ StoredKeyPoints(db, 1) \subseteq StoredKeyPoints(db', 1)]_vars

\* pass `a` merged a response and became `b`
MergedBy(a, b) == a.pc = "llm" /\ b.pc = "done" /\ b.outcome.kind = "return"

\* the merge of a pass stores what the pass read when it started together
\* with what its response adds
WritesReadPlusNew(a, b) ==
    MergedBy(a, b)
        => /\ StoredDecisions(db', 1) =
                 Elems(a.meta.decisions) \cup Elems(b.response.result.new_decisions)
           /\ StoredKeyPoints(db', 1) =
                 Elems(a.meta.key_points) \cup Elems(b.response.result.new_key_points)

\* what does hold: each merge keeps the entries its own pass had read, and
\* therefore every stored entry when no other pass wrote since that read
MergeKeepsWhatItRead ==
    [][/\ (an' # an => WritesReadPlusNew(an, an'))
       /\ (an2' # an2 => WritesReadPlusNew(an2, an2'))]_vars

(***************************************************************************)
(* Specification SpecReads: a run of the agent on chat 1 while /solve and  *)
(* /clear commands write to the store between its steps.                  *)
(***************************************************************************)
MaxRunWrites == 1

\* bot.py:590-597: /clear in chat 1
ClearCommand ==
    /\ so.n < MaxRunWrites
    /\ db' = clear_chat_data(db, 1)
    /\ so' = called("clear_chat_data", [chat_id |-> 1], [kind |-> "return"], NoTrail)
    /\ StoreUnchanged

NextReads ==
    \/ \E on_status \in Callbacks : AgentCall(1, on_status)
    \/ ToolsGatewayResponds
    \/ GatewayFails
    \/ ToolStep
    \/ SolveCommandWithin(MaxRunWrites)
    \/ ClearCommand

SpecReads == InitTools /\ [][NextReads]_vars

\* a step of the run leaves the store as it is
RunWritesNothing == ag' # ag => db' = db

\* the list of the run is the chat's problems as stored when the run
\* started, and stays that list until the run is over
ListLoadedOnce ==
    /\ (ag.pc = "idle" /\ ag'.pc \notin {"idle", "done"})
          => ag'.problems = get_problems_by_chat(db, 1)
    /\ ag.pc # "idle" => ag'.problems = ag.problems

\* a tool call that went through gave what the list of the run has at the
\* index: the details of that problem, or the messages the store links to
\* that problem now
IndexResolvedInList ==
    (ag.pc = "tool" /\ CurrentCall.decodable
        /\ Len(ag'.messages) = Len(ag.messages) + 1)
        => LET content == ag'.messages[Len(ag'.messages)].content
               idx == PyGet(CurrentCall.args, "problem_index", 0)
           IN  /\ CurrentCall.name = "get_problems_details"
                     => /\ DetailsWithMarkers(content, IndicesOf(CurrentCall))
                        /\ content = format_problem_details(ag.problems,
                                                            IndicesOf(CurrentCall))
               /\ CurrentCall.name = "get_problem_messages"
                     => IF OutOfRange(idx)
                        THEN content = [kind |-> "problem_not_found", index |-> idx]
                        ELSE /\ ag'.message_reads =
                                   Append(ag.message_reads, ag.problems[idx + 1].id)
                             /\ content.kind \in {"page", "no_such_page"}
                             /\ content.kind = "page"
                                   => Elems(content.items) =
                                         LinkedTo(db, ag.problems[idx + 1].id)

\* C39: no step of a run of the agent changes the problems, messages, links
\* or chat meta of the store, whatever the gateway answers and whatever
\* tools it calls; the run reads the chat's problem list once, when it
\* starts, and resolves the index of every tool call in that list, also
\* after the store has changed.
C39_RunReadsOnlyOneList ==
    [][RunWritesNothing /\ ListLoadedOnce /\ IndexResolvedInList]_vars

\* the chat was cleared during the run and a later tool call for index 0
\* still went to the problem the run had loaded, whose messages are gone
C39_Witness ==
    /\ get_problems_by_chat(db, 1) = <<>>
    /\ Len(ag.problems) = 1
    /\ ag.message_reads # <<>>
    /\ ag.message_reads[Len(ag.message_reads)] = ag.problems[1].id
    /\ ag.messages[Len(ag.messages)].role = "tool"
    /\ ag.messages[Len(ag.messages)].content =
          [kind |-> "page", page |-> 1, total_pages |-> 1, total |-> 0, items |-> <<>>]

====
